---------------------------- MODULE Spec2Model ----------------------------
(***************************************************************************)
(* Alpha-SQL, LLM-guided variant: the action selection policy              *)
(* (LLMActionSelector), the path generator and the per-task solve loop     *)
(* (LLMGuidedSolver), and the self-consistency selector                    *)
(* (select_final_sql_query).                                               *)
(***************************************************************************)
EXTENDS Integers, Naturals, Sequences, FiniteSets, TLC

VARIABLES
    \* LLMActionSelector: one call of select_action and one of the heuristic
    sel_node,        \* node.path_nodes, the node's path from the root
    sel_valid,       \* valid_actions
    sel_response,    \* what the model invocation produced
    sel_result,      \* what select_action returned (or the escaping error)
    def_result,      \* what _default_action_selection returned on the same input
    \* LLMGuidedSolver.generate_one_path
    llm_responses,   \* what the model invocation of select_action can answer in this run
    max_steps,       \* self.max_steps
    max_depth,       \* self.max_depth
    path,            \* path; current is its last element
    step,            \* step
    pc,              \* "loop", "closure", "returned", "raised" ("off": not running)
    n_select,        \* calls of select_action made by the loop
    closure_from,    \* the path as the loop left it (<<>> while it runs)
    n_forced,        \* forced End actions applied after the loop
    end_nodes,       \* what the forced End action returned
    selected_action, \* selected_action of the last iteration
    first_child,     \* children_nodes[:1] of the last iteration
    discarded,       \* the returned children the path did not follow
    left_by,         \* what ended the loop: "condition", "no_valid_actions",
                     \* "no_children", "exception" ("": it has not ended)
    \* LLMGuidedSolver.solve
    num_paths,       \* self.num_paths
    solve_pc,        \* "setup", "loop", "saved", "failed" ("off": not running)
    path_idx,        \* path_idx of the for loop (attempts finished)
    all_reasoning_paths,
    attempts,        \* calls of generate_one_path made
    save_file,       \* the task's <question_id>.pkl: whether it exists, its content
    \* select_final_sql_query
    results,         \* the paths unpickled from the results file
    answers,         \* the execution oracle: SQL -> execution result
    times,           \* the latency measured for a SQL in this run
    result_groups,   \* groups of valid successful results, in insertion order
    result_groups_with_invalid_result,
    path_idx_with_sc_score,  \* the ranked (path index, score, time) entries
    selected_item,   \* the returned question's db_id and sql, and the chosen index
    pick_pc,         \* "ready", "done", "rerun" ("off": not running)
    \* a second call of select_final_sql_query, on the same paths reordered
    rerun_results,   \* the paths unpickled by the second call
    rerun_out,       \* its dictionaries, ranked entries and returned item
    \* LLMGuidedRunner.run_all_tasks, over several invocations of the batch
    save_root_dir,   \* question_id -> content of <question_id>.pkl, or NoArtifact
    config_json,     \* whether save_root_dir/config.json has been written
    subset_ids,      \* the ids of the subset file, or NoSubset
    tasks,           \* the list of tasks still to solve in this invocation
    done_task_ids,   \* done_task_ids of this invocation
    solved,          \* the tasks whose run_one_task call has returned in the
                     \* invocation (until the next one loads its tasks)
    gave_up,         \* those of them whose solve() raised
    run_no,          \* which invocation of the batch this is
    call_queue,      \* the work items of executor.map no worker has taken yet
    in_flight,       \* worker -> the task its run_one_task call is on, or 0
    n_runs,          \* question_id -> run_one_task calls started on the task
    n_writes,        \* question_id -> times <question_id>.pkl was written
    runner_pc,       \* "start", "map", "finished", "aborted" ("off": not running)
    \* main of sql_selection
    results_dir,     \* question_id -> the file <question_id>.pkl of args.results_dir
    result_paths,    \* the question_ids of the files glob found (the submitted calls)
    final_pred_sqls, \* the dict, as its (key, value) entries in insertion order
    output_file,     \* args.output_path: whether it was written, its entries
    main_pc,         \* "start", "collect", "written", "aborted" ("off": not running)
    \* SQLComparator.compare_files
    golden_data,     \* self.golden_data: per question, whether its database file exists
    sqls_file1,      \* len(sqls_file1), the lines read from the first file
    sqls_file2,      \* len(sqls_file2), the lines read from the second file
    cmp_idx,         \* questions the loop of compare_files has been through
    file1_stats,     \* the five counters kept for the first file
    file2_stats,     \* the five counters kept for the second file
    cmp_pc           \* "loop", "reported", "raised" ("off": not running)

selVars == <<sel_node, sel_valid, sel_response, sel_result, def_result>>

genVars == <<llm_responses, max_steps, max_depth, path, step, pc, n_select, closure_from,
          n_forced, end_nodes, selected_action, first_child, discarded, left_by>>

solveVars == <<num_paths, solve_pc, path_idx, all_reasoning_paths, attempts, save_file>>

pickVars == <<results, answers, times, result_groups, result_groups_with_invalid_result,
              path_idx_with_sc_score, selected_item, pick_pc>>

rerunVars == <<rerun_results, rerun_out>>

workerVars == <<call_queue, in_flight, n_runs, n_writes>>

runnerVars == <<save_root_dir, config_json, subset_ids, tasks, done_task_ids,
                solved, gave_up, run_no, runner_pc, workerVars>>

mainVars == <<results_dir, result_paths, final_pred_sqls, output_file, main_pc>>

cmpVars == <<golden_data, sqls_file1, sqls_file2, cmp_idx, file1_stats, file2_stats,
             cmp_pc>>

vars == <<sel_node, sel_valid, sel_response, sel_result, def_result,
          llm_responses, max_steps, max_depth, path, step, pc, n_select, closure_from,
          n_forced, end_nodes, selected_action, first_child, discarded, left_by,
          num_paths, solve_pc, path_idx, all_reasoning_paths, attempts, save_file,
          results, answers, times, result_groups, result_groups_with_invalid_result,
          path_idx_with_sc_score, selected_item, pick_pc,
          rerun_results, rerun_out,
          save_root_dir, config_json, subset_ids, tasks, done_task_ids, solved,
          gave_up, run_no, runner_pc, call_queue, in_flight, n_runs, n_writes,
          results_dir, result_paths, final_pred_sqls, output_file, main_pc,
          golden_data, sqls_file1, sqls_file2, cmp_idx, file1_stats, file2_stats,
          cmp_pc>>

\* What the actions of one component leave alone.
notSel == <<genVars, solveVars, pickVars, rerunVars, runnerVars, mainVars, cmpVars>>

notGen == <<selVars, solveVars, pickVars, rerunVars, runnerVars, mainVars, cmpVars>>

notSolve == <<selVars, pickVars, rerunVars, runnerVars, mainVars, cmpVars>>

notPick == <<selVars, genVars, solveVars, runnerVars, mainVars, cmpVars>>

notRunner == <<selVars, genVars, solveVars, pickVars, rerunVars, mainVars, cmpVars>>

notMain == <<selVars, genVars, solveVars, rerunVars, runnerVars, cmpVars, results, times,
             result_groups, result_groups_with_invalid_result,
             path_idx_with_sc_score, selected_item, pick_pc, answers>>

notCompare == <<selVars, genVars, solveVars, pickVars, rerunVars, runnerVars, mainVars>>

notRerun == <<selVars, genVars, solveVars, runnerVars, mainVars, cmpVars, results, answers, times, result_groups,
              result_groups_with_invalid_result, path_idx_with_sc_score, selected_item>>

(***************************************************************************)
(* Bounds of the model                                                     *)
(***************************************************************************)
MaxHist == 2       \* longest path history handed to the selector
MaxLegal == 2      \* longest list of legal actions handed to the selector
MaxSteps == 4      \* largest configured max_steps
MaxDepth == 4      \* largest configured max_depth
MaxChildren == 2   \* most children one action application returns
MaxPaths == 2      \* largest configured num_paths
MaxSolveSteps == 2 \* largest configured max_steps when solve is run
MaxSolveDepth == 2 \* largest configured max_depth when solve is run
MaxResults == 3    \* most paths in one results file
MaxRows == 2       \* most rows in one execution result
MaxTasks == 3      \* most tasks in the tasks file
MaxWorkers == 2      \* worker processes of the pool

MaxRuns == 2       \* most invocations of the batch on one output directory
MaxLatency == 2    \* largest measured latency

(***************************************************************************)
(* The action catalogue                                                    *)
(***************************************************************************)
RaphraseQuestionAction == "RaphraseQuestionAction"
SchemaSelectionAction == "SchemaSelectionAction"
IdentifyColumnValuesAction == "IdentifyColumnValuesAction"
IdentifyColumnFunctionsAction == "IdentifyColumnFunctionsAction"
SQLGenerationAction == "SQLGenerationAction"
SQLRevisionAction == "SQLRevisionAction"
EndAction == "EndAction"

ActionClasses ==
    { RaphraseQuestionAction, SchemaSelectionAction, IdentifyColumnValuesAction,
      IdentifyColumnFunctionsAction, SQLGenerationAction, SQLRevisionAction,
      EndAction }

NoAction == "None"          \* parent_action of the root node
NotCalled == "NotCalled"    \* no call has returned yet
IndexError == "IndexError"  \* valid_actions[0] on an empty list

Range(s) == { s[i] : i \in 1..Len(s) }

SeqsUpTo(S, n) == UNION { [1..k -> S] : k \in 0..n }

(***************************************************************************)
(* Nodes.  A node is known to the selector through node.path_nodes, the    *)
(* nodes from the root to it; each carries the action that produced it.    *)
(***************************************************************************)
NoSql == "NoSql"

\* The database of the task at hand (any identifier other than the default
\* one of select_final_sql_query).
TaskDbId == "california_schools"

RootNode == [node_type |-> "ROOT", parent_action |-> NoAction, depth |-> 0,
             final_sql_query |-> NoSql, db_id |-> TaskDbId]

NodeTypeOf(action) ==
    CASE action = NoAction -> "ROOT"
      [] action = RaphraseQuestionAction -> "REPHRASE_QUESTION"
      [] action = SchemaSelectionAction -> "SCHEMA_SELECTION"
      [] action = IdentifyColumnValuesAction -> "IDENTIFY_COLUMN_VALUES"
      [] action = IdentifyColumnFunctionsAction -> "IDENTIFY_COLUMN_FUNCTIONS"
      [] action = SQLGenerationAction -> "SQL_GENERATION"
      [] action = SQLRevisionAction -> "SQL_REVISION"
      [] action = EndAction -> "END"

MkNode(action, d, sql) ==
    [node_type |-> NodeTypeOf(action), parent_action |-> action, depth |-> d,
     final_sql_query |-> sql, db_id |-> TaskDbId]

\* The path_nodes of a node reached from the root by the actions of history h.
PathOfHistory(h) ==
    <<RootNode>> \o [i \in 1..Len(h) |-> MkNode(h[i], i, NoSql)]

(***************************************************************************)
(* What the model invocation of select_action can produce.                 *)
(*   raise    the model is not configured, or call_openai raises           *)
(*   noblock  the response holds no ```json block                          *)
(*   badjson  the block is not a JSON object (json.loads or .get raises)   *)
(*   nonint   selected_action_number is not an integer                     *)
(*   noindex  the object has no selected_action_number                     *)
(*   index    selected_action_number is the integer n                      *)
(***************************************************************************)
IndexValues == 0..(MaxLegal + 1)

Responses ==
    { [kind |-> k, n |-> 0] : k \in {"raise", "noblock", "badjson", "nonint", "noindex"} }
    \cup { [kind |-> "index", n |-> n] : n \in IndexValues }

(***************************************************************************)
(* LLMActionSelector._default_action_selection                             *)
(***************************************************************************)
has_sql_generation(path_nodes) ==
    \E i \in 1..Len(path_nodes) : path_nodes[i].parent_action = SQLGenerationAction

has_schema_selection(path_nodes) ==
    \E i \in 1..Len(path_nodes) : path_nodes[i].parent_action = SchemaSelectionAction

\* next(a for a in valid_actions if isinstance(a, cls))
FirstOfClass(valid_actions, cls) ==
    valid_actions[CHOOSE i \in 1..Len(valid_actions) :
                     /\ valid_actions[i] = cls
                     /\ \A j \in 1..(i - 1) : valid_actions[j] # cls]

\* Mutant: rule 1 forgets to ask whether End is legal.
default_action_selection_EndNotChecked(path_nodes, valid_actions) ==
    IF has_sql_generation(path_nodes)
    THEN EndAction
    ELSE IF SQLGenerationAction \in Range(valid_actions) /\ has_schema_selection(path_nodes)
    THEN FirstOfClass(valid_actions, SQLGenerationAction)
    ELSE IF SchemaSelectionAction \in Range(valid_actions) /\ ~has_schema_selection(path_nodes)
    THEN FirstOfClass(valid_actions, SchemaSelectionAction)
    ELSE IF Len(valid_actions) = 0 THEN IndexError
    ELSE valid_actions[1]

\* Mutant: the rules in the order of the comment above the code
\* (SQL generation, schema selection, End, first action).
default_action_selection_CommentOrder(path_nodes, valid_actions) ==
    IF SQLGenerationAction \in Range(valid_actions) /\ has_schema_selection(path_nodes)
    THEN FirstOfClass(valid_actions, SQLGenerationAction)
    ELSE IF SchemaSelectionAction \in Range(valid_actions) /\ ~has_schema_selection(path_nodes)
    THEN FirstOfClass(valid_actions, SchemaSelectionAction)
    ELSE IF EndAction \in Range(valid_actions) /\ has_sql_generation(path_nodes)
    THEN FirstOfClass(valid_actions, EndAction)
    ELSE IF Len(valid_actions) = 0 THEN IndexError
    ELSE valid_actions[1]

\* Mutant: rule 2 proposes SQL generation without asking whether it is
\* legal and whether a schema selection has occurred.
default_action_selection_SqlGenerationUnchecked(path_nodes, valid_actions) ==
    IF EndAction \in Range(valid_actions) /\ has_sql_generation(path_nodes)
    THEN FirstOfClass(valid_actions, EndAction)
    ELSE IF ~has_sql_generation(path_nodes)
    THEN SQLGenerationAction
    ELSE IF SchemaSelectionAction \in Range(valid_actions) /\ ~has_schema_selection(path_nodes)
    THEN FirstOfClass(valid_actions, SchemaSelectionAction)
    ELSE IF Len(valid_actions) = 0 THEN IndexError
    ELSE valid_actions[1]

_default_action_selection(path_nodes, valid_actions) ==
    IF EndAction \in Range(valid_actions) /\ has_sql_generation(path_nodes)
    THEN FirstOfClass(valid_actions, EndAction)
    ELSE IF SQLGenerationAction \in Range(valid_actions) /\ has_schema_selection(path_nodes)
    THEN FirstOfClass(valid_actions, SQLGenerationAction)
    ELSE IF SchemaSelectionAction \in Range(valid_actions) /\ ~has_schema_selection(path_nodes)
    THEN FirstOfClass(valid_actions, SchemaSelectionAction)
    ELSE IF Len(valid_actions) = 0 THEN IndexError
    ELSE valid_actions[1]

(***************************************************************************)
(* LLMActionSelector.select_action.  The try block either returns the      *)
(* action at the parsed index or falls through to the heuristic; every     *)
(* exception inside it lands in the handler, which calls the heuristic.    *)
(***************************************************************************)
\* Mutant: a missing selected_action_number is no index at all.
selected_idx_NoDefault(response) ==
    IF response.kind = "noindex" THEN 0 - 1 ELSE response.n - 1

\* selected_idx = result.get("selected_action_number", 1) - 1
selected_idx(response) ==
    IF response.kind = "noindex" THEN 1 - 1 ELSE response.n - 1

\* Mutant: an index outside the list is answered with the first action
\* instead of the heuristic.
select_action_OutOfRangeTakesFirst(path_nodes, valid_actions, response) ==
    IF response.kind \in {"raise", "badjson", "nonint"}
    THEN _default_action_selection(path_nodes, valid_actions)
    ELSE IF response.kind = "noblock"
    THEN _default_action_selection(path_nodes, valid_actions)
    ELSE IF 0 <= selected_idx(response) /\ selected_idx(response) < Len(valid_actions)
    THEN valid_actions[selected_idx(response) + 1]
    ELSE IF Len(valid_actions) = 0 THEN IndexError
    ELSE valid_actions[1]

\* Mutant: when the model's answer cannot be used, the first action of the
\* list is returned instead of the heuristic's choice.
select_action_FailureTakesFirst(path_nodes, valid_actions, response) ==
    IF response.kind \in {"raise", "badjson", "nonint", "noblock"}
    THEN (IF Len(valid_actions) = 0 THEN IndexError ELSE valid_actions[1])
    ELSE IF 0 <= selected_idx(response) /\ selected_idx(response) < Len(valid_actions)
    THEN valid_actions[selected_idx(response) + 1]
    ELSE IF Len(valid_actions) = 0 THEN IndexError
    ELSE valid_actions[1]

select_action(path_nodes, valid_actions, response) ==
    IF response.kind \in {"raise", "badjson", "nonint"}
    THEN _default_action_selection(path_nodes, valid_actions)      \* except Exception
    ELSE IF response.kind = "noblock"
    THEN _default_action_selection(path_nodes, valid_actions)      \* json_match is None
    ELSE IF 0 <= selected_idx(response) /\ selected_idx(response) < Len(valid_actions)
    THEN valid_actions[selected_idx(response) + 1]
    ELSE _default_action_selection(path_nodes, valid_actions)

(***************************************************************************)
(* Specification of the selector: a node and a list of actions are drawn   *)
(* at start; the heuristic strategy is called on them, then the            *)
(* model-driven strategy, whose model invocation answers in any way.       *)
(***************************************************************************)
NoResponse == [kind |-> "none", n |-> 0]

\* The generator is not part of the run.
GenOff ==
    /\ llm_responses = {}
    /\ max_steps = 0
    /\ max_depth = 0
    /\ path = <<>>
    /\ step = 0
    /\ pc = "off"
    /\ n_select = 0
    /\ closure_from = <<>>
    /\ n_forced = 0
    /\ end_nodes = <<>>
    /\ selected_action = NoAction
    /\ first_child = <<>>
    /\ discarded = {}
    /\ left_by = ""

NoFile == [exists |-> FALSE, paths |-> <<>>]

\* solve is not part of the run.
SolveOff ==
    /\ num_paths = 0
    /\ solve_pc = "off"
    /\ path_idx = 0
    /\ all_reasoning_paths = <<>>
    /\ attempts = 0
    /\ save_file = NoFile

\* What select_final_sql_query computes, before it has run.
NoOutput == [result_groups |-> <<>>, result_groups_with_invalid_result |-> <<>>,
             path_idx_with_sc_score |-> <<>>,
             item |-> [db_id |-> "", sql |-> "", path_idx |-> 0 - 1]]

NoItem == [db_id |-> "", sql |-> "", path_idx |-> 0 - 1]

\* select_final_sql_query is not part of the run.
\* main of sql_selection is not running.
MainOff ==
    /\ results_dir = <<>>
    /\ result_paths = {}
    /\ final_pred_sqls = <<>>
    /\ output_file = [exists |-> FALSE, content |-> <<>>]
    /\ main_pc = "off"

\* compare_files of the comparator is not running.
CompareOff ==
    /\ golden_data = <<>>
    /\ sqls_file1 = 0
    /\ sqls_file2 = 0
    /\ cmp_idx = 0
    /\ file1_stats = <<>>
    /\ file2_stats = <<>>
    /\ cmp_pc = "off"

\* The batch runner is not running.
RunnerOff ==
    /\ save_root_dir = <<>>
    /\ config_json = FALSE
    /\ subset_ids = {}
    /\ tasks = <<>>
    /\ done_task_ids = {}
    /\ solved = {}
    /\ gave_up = {}
    /\ run_no = 0
    /\ runner_pc = "off"
    /\ call_queue = <<>>
    /\ in_flight = <<>>
    /\ n_runs = <<>>
    /\ n_writes = <<>>

\* No second call of select_final_sql_query has been made.
RerunOff ==
    /\ rerun_results = <<>>
    /\ rerun_out = NoOutput

PickOff ==
    /\ results = <<>>
    /\ answers = <<>>
    /\ times = <<>>
    /\ result_groups = <<>>
    /\ result_groups_with_invalid_result = <<>>
    /\ path_idx_with_sc_score = <<>>
    /\ selected_item = NoItem
    /\ pick_pc = "off"
    /\ RerunOff

\* The selector is not observed on its own.
SelOff ==
    /\ sel_node = <<>>
    /\ sel_valid = <<>>
    /\ sel_response = NoResponse
    /\ sel_result = NotCalled
    /\ def_result = NotCalled

SelInit ==
    /\ sel_node \in { PathOfHistory(h) : h \in SeqsUpTo(ActionClasses, MaxHist) }
    /\ sel_valid \in SeqsUpTo(ActionClasses, MaxLegal)
    /\ sel_response = NoResponse
    /\ sel_result = NotCalled
    /\ def_result = NotCalled
    /\ GenOff
    /\ SolveOff
    /\ PickOff
    /\ RunnerOff
    /\ MainOff
    /\ CompareOff

DefaultActionSelection ==
    /\ def_result = NotCalled
    /\ def_result' = _default_action_selection(sel_node, sel_valid)
    /\ UNCHANGED <<sel_node, sel_valid, sel_response, sel_result>>
    /\ UNCHANGED notSel

SelectAction ==
    /\ def_result # NotCalled
    /\ sel_result = NotCalled
    /\ \E response \in Responses :
          /\ sel_response' = response
          /\ sel_result' = select_action(sel_node, sel_valid, response)
    /\ UNCHANGED <<sel_node, sel_valid, def_result>>
    /\ UNCHANGED notSel

SelNext == DefaultActionSelection \/ SelectAction

SpecSelector == SelInit /\ [][SelNext]_vars

(***************************************************************************)
(* The action catalogue's state machine, as the path generator uses it.    *)
(* Legality: SchemaSelection at most once per path; SQLGeneration only     *)
(* after a SchemaSelection; End, and SQLRevision (which revises the        *)
(* previously generated SQL), only after a SQLGeneration; at a             *)
(* SQLGeneration or SQLRevision node SQLRevision and End are always legal. *)
(* Any list within these rules can be the legal list of a node.            *)
(***************************************************************************)
Sqls == {"q1", "q2"}

Catalogue ==
    << RaphraseQuestionAction, SchemaSelectionAction, IdentifyColumnValuesAction,
       IdentifyColumnFunctionsAction, SQLGenerationAction, SQLRevisionAction,
       EndAction >>

SqlNodeTypes == {"SQL_GENERATION", "SQL_REVISION"}

is_terminal(node) == node.node_type = "END"

AllowedActions(path_nodes) ==
    { a \in ActionClasses :
        /\ a = SchemaSelectionAction => ~has_schema_selection(path_nodes)
        /\ a = SQLGenerationAction => has_schema_selection(path_nodes)
        /\ a = SQLRevisionAction => has_sql_generation(path_nodes)
        /\ a = EndAction => has_sql_generation(path_nodes) }

RequiredActions(path_nodes) ==
    IF path_nodes[Len(path_nodes)].node_type \in SqlNodeTypes
    THEN {SQLRevisionAction, EndAction}
    ELSE {}

InCatalogueOrder(S) ==
    LET Member(a) == a \in S IN SelectSeq(Catalogue, Member)

\* The lists get_valid_action_space_for_node can return for the node at the
\* end of path_nodes.
get_valid_action_space_for_node(path_nodes) ==
    { InCatalogueOrder(S) :
        S \in { T \in SUBSET AllowedActions(path_nodes) :
                  RequiredActions(path_nodes) \subseteq T } }

\* The lists action.create_children_nodes(parent) can return: any number of
\* children up to MaxChildren, each of the action's node type, one level
\* below the parent; a SQL action writes a new SQL, every other action
\* carries the parent's forward.
ChildNodes(parent, action) ==
    { MkNode(action, parent.depth + 1, q) :
        q \in IF action \in {SQLGenerationAction, SQLRevisionAction}
              THEN Sqls
              ELSE {parent.final_sql_query} }

create_children_nodes(parent, action) ==
    UNION { [1..k -> ChildNodes(parent, action)] : k \in 0..MaxChildren }

(***************************************************************************)
(* LLMGuidedSolver.generate_one_path                                       *)
(***************************************************************************)
\* Mutant: the loop no longer stops at a terminal node.
LoopCondition_NoTerminalCheck(current, stp, ms, md) ==
    stp < ms /\ current.depth < md

\* Mutant: the loop no longer looks at the depth budget.
LoopCondition_NoDepthCheck(current, stp, ms, md) ==
    ~is_terminal(current) /\ stp < ms

\* while not current.is_terminal() and step < self.max_steps
\*       and current.depth < self.max_depth
\* Mutant: the loop still runs on a node at the depth budget.
LoopCondition_DepthInclusive(current, stp, ms, md) ==
    ~is_terminal(current) /\ stp < ms /\ current.depth <= md

LoopCondition(current, stp, ms, md) ==
    ~is_terminal(current) /\ stp < ms /\ current.depth < md

\* Mutant: forced closure only after a revision.
NeedsForcedEnd_RevisionOnly(current) ==
    ~is_terminal(current) /\ current.node_type \in {"SQL_REVISION"}

\* Mutant: forced closure after any non-terminal node.
NeedsForcedEnd_AnyNode(current) ==
    ~is_terminal(current)

\* Mutant: forced closure after a schema selection as well.
NeedsForcedEnd_SchemaSelectionToo(current) ==
    ~is_terminal(current)
    /\ current.node_type \in {"SCHEMA_SELECTION", "SQL_GENERATION", "SQL_REVISION"}

\* if not current.is_terminal():
\*     if current.node_type in [SQL_GENERATION, SQL_REVISION]:
NeedsForcedEnd(current) ==
    ~is_terminal(current) /\ current.node_type \in SqlNodeTypes

\* Mutant: the last returned child is followed instead of the first.
Advance_LastChild(p, children) ==
    Append(p, children[Len(children)])

\* Mutant: path.append runs before current is moved to the child.
Advance_AppendBeforeMove(p, children) ==
    Append(p, p[Len(p)])

\* current = children_nodes[0]; path.append(current)
Advance(p, children) ==
    Append(p, children[1])

\* The actions select_action can return at the end of p when the model
\* invocation answers with one of rs: the valid action space is any
\* non-empty one the node can have.
SelectableWith(p, rs) ==
    { select_action(p, v, r) :
        v \in get_valid_action_space_for_node(p) \ {<<>>}, r \in rs }

\* The same when the model invocation can answer in any way.
SelectableActions(p) == SelectableWith(p, Responses)

\* Mutant: a node without valid actions, or an action without children, is
\* an error that leaves generate_one_path.
BreakLoop_Raises(p) == [pc |-> "raised", path |-> <<>>]

\* The break of lines 65-67 and 75-77: the loop is left with the path as it
\* is, and the code after the loop runs on it.
BreakLoop(p) == [pc |-> "closure", path |-> p]

Current == path[Len(path)]

\* The returned children that are not the node the path went on with.
Discarded(p, children) == Range(children) \ { p[Len(p)] }

GenStart(rs) ==
    /\ llm_responses = rs
    /\ max_steps \in 0..MaxSteps
    /\ max_depth \in 0..MaxDepth
    /\ path = <<RootNode>>
    /\ step = 0
    /\ pc = "loop"
    /\ n_select = 0
    /\ closure_from = <<>>
    /\ n_forced = 0
    /\ end_nodes = <<>>
    /\ selected_action = NoAction
    /\ first_child = <<>>
    /\ discarded = {}
    /\ left_by = ""
    /\ SelOff
    /\ SolveOff
    /\ PickOff
    /\ RunnerOff
    /\ MainOff
    /\ CompareOff

\* The model invocation can answer in any way.
GenInit == GenStart(Responses)

\* The loop condition fails: the loop is left.
LoopExit ==
    /\ pc = "loop"
    /\ ~LoopCondition(Current, step, max_steps, max_depth)
    /\ pc' = "closure"
    /\ closure_from' = path
    /\ left_by' = "condition"
    /\ UNCHANGED <<llm_responses, max_steps, max_depth, path, step, n_select, n_forced, end_nodes>>
    /\ UNCHANGED <<selected_action, first_child, discarded>>
    /\ UNCHANGED notGen

\* One iteration in which the node has no valid action: break.
LoopNoValidActions ==
    /\ pc = "loop"
    /\ LoopCondition(Current, step, max_steps, max_depth)
    /\ <<>> \in get_valid_action_space_for_node(path)
    /\ pc' = BreakLoop(path).pc
    /\ closure_from' = BreakLoop(path).path
    /\ left_by' = "no_valid_actions"
    /\ UNCHANGED <<llm_responses, max_steps, max_depth, path, step, n_select, n_forced, end_nodes>>
    /\ UNCHANGED <<selected_action, first_child, discarded>>
    /\ UNCHANGED notGen

\* One iteration that selects an action, applies it and moves to the first
\* child.
LoopAdvance ==
    /\ pc = "loop"
    /\ LoopCondition(Current, step, max_steps, max_depth)
    /\ \E action \in SelectableWith(path, llm_responses) :
          \E children \in create_children_nodes(Current, action) :
             /\ children # <<>>
             /\ selected_action' = action
             /\ first_child' = SubSeq(children, 1, 1)
             /\ path' = Advance(path, children)
             /\ discarded' = discarded \cup Discarded(Advance(path, children), children)
    /\ step' = step + 1
    /\ n_select' = n_select + 1
    /\ UNCHANGED <<llm_responses, max_steps, max_depth, pc, closure_from, n_forced, end_nodes, left_by>>
    /\ UNCHANGED notGen

\* One iteration whose selected action returns no children: break.
LoopNoChildren ==
    /\ pc = "loop"
    /\ LoopCondition(Current, step, max_steps, max_depth)
    /\ \E action \in SelectableWith(path, llm_responses) :
          /\ <<>> \in create_children_nodes(Current, action)
          /\ selected_action' = action
    /\ first_child' = <<>>
    /\ pc' = BreakLoop(path).pc
    /\ closure_from' = BreakLoop(path).path
    /\ left_by' = "no_children"
    /\ n_select' = n_select + 1
    /\ UNCHANGED <<llm_responses, max_steps, max_depth, path, step, n_forced, end_nodes, discarded>>
    /\ UNCHANGED notGen

\* One iteration whose selected action raises while it is applied: the
\* exception leaves generate_one_path.
LoopRaise ==
    /\ pc = "loop"
    /\ LoopCondition(Current, step, max_steps, max_depth)
    /\ \E action \in SelectableWith(path, llm_responses) : selected_action' = action
    /\ pc' = "raised"
    /\ left_by' = "exception"
    /\ n_select' = n_select + 1
    /\ UNCHANGED <<llm_responses, max_steps, max_depth, path, step, closure_from, n_forced, end_nodes>>
    /\ UNCHANGED <<first_child, discarded>>
    /\ UNCHANGED notGen

\* After the loop: nothing to close, the path is returned as it is.
ClosureSkip ==
    /\ pc = "closure"
    /\ ~NeedsForcedEnd(Current)
    /\ pc' = "returned"
    /\ UNCHANGED <<llm_responses, max_steps, max_depth, path, step, n_select, closure_from, n_forced, end_nodes>>
    /\ UNCHANGED <<selected_action, first_child, discarded, left_by>>
    /\ UNCHANGED notGen

\* After the loop: one End action is applied to the last node and its first
\* node, if any, is appended.
ClosureEnd ==
    /\ pc = "closure"
    /\ NeedsForcedEnd(Current)
    /\ \E nodes \in create_children_nodes(Current, EndAction) :
          /\ end_nodes' = nodes
          /\ n_forced' = n_forced + 1
          /\ path' = IF nodes # <<>> THEN Advance(path, nodes) ELSE path
    /\ pc' = "returned"
    /\ UNCHANGED <<llm_responses, max_steps, max_depth, step, n_select, closure_from>>
    /\ UNCHANGED <<selected_action, first_child, discarded, left_by>>
    /\ UNCHANGED notGen

\* After the loop: the forced End action raises.
ClosureRaise ==
    /\ pc = "closure"
    /\ NeedsForcedEnd(Current)
    /\ pc' = "raised"
    /\ UNCHANGED <<llm_responses, max_steps, max_depth, path, step, n_select, closure_from, n_forced, end_nodes>>
    /\ UNCHANGED <<selected_action, first_child, discarded, left_by>>
    /\ UNCHANGED notGen

GenNext ==
    \/ LoopExit
    \/ LoopNoValidActions
    \/ LoopAdvance
    \/ LoopNoChildren
    \/ LoopRaise
    \/ ClosureSkip
    \/ ClosureEnd
    \/ ClosureRaise

Spec == GenInit /\ [][GenNext]_vars

\* Every call made by generate_one_path returns, so a step that can be taken
\* is taken.
FairSpec == Spec /\ WF_vars(GenNext)

(***************************************************************************)
(* The generator when no answer of the model can be used (the model is not *)
(* configured, the call fails, the answer has no JSON block, is not JSON,  *)
(* or names action 0): every selection is made by the heuristic strategy.  *)
(***************************************************************************)
FailingResponses ==
    { r \in Responses :
        \/ r.kind \in {"raise", "noblock", "badjson", "nonint"}
        \/ (r.kind = "index" /\ r.n = 0) }

HeuristicInit == GenStart(FailingResponses)

SpecHeuristic == HeuristicInit /\ [][GenNext]_vars

(***************************************************************************)
(* Claims about generate_one_path                                          *)
(***************************************************************************)
Min(a, b) == IF a <= b THEN a ELSE b

Finished == pc \in {"returned", "raised"}

LastOf(p) == p[Len(p)]

\* C4 (state part): an End node occurs at most once in the path and only as
\* its last element, so the path is terminal iff its last node is End.
C4_EndOnlyLastState ==
    pc # "off" =>
        /\ \A i \in 1..(Len(path) - 1) : path[i].node_type # "END"
        /\ is_terminal(LastOf(path)) <=> LastOf(path).node_type = "END"

\* C4: in generate_one_path, once the current node has type End no further
\* action is selected or applied (the path and the count of selections stay
\* as they are), and in every path an End node occurs only as the last
\* element.
C4_EndOnlyLast ==
    /\ []C4_EndOnlyLastState
    /\ [][(pc # "off" /\ LastOf(path).node_type = "END")
             => (path' = path /\ n_select' = n_select /\ n_forced' = n_forced)]_vars

\* End was selected inside the loop, after three iterations, and the path
\* was returned with it as last node.
C4_Witness ==
    /\ pc = "returned"
    /\ Len(path) = 4
    /\ LastOf(path).node_type = "END"
    /\ n_forced = 0
    /\ end_nodes = <<>>
    /\ step < max_steps

\* C5: generate_one_path always terminates: it makes at most
\* min(max_steps, max_depth) select/apply iterations from the depth-0 root,
\* none once the step count has reached max_steps or the depth of the
\* current node max_depth, then at most one forced End application, after
\* which nothing changes.
C5_Terminates ==
    /\ [](n_select <= Min(max_steps, max_depth))
    /\ [][n_select' # n_select
             => (step < max_steps /\ LastOf(path).depth < max_depth)]_vars
    /\ [](n_forced <= 1)
    /\ [][n_forced = 1 => (n_forced' = n_forced /\ path' = path)]_vars
    /\ <>Finished

\* All min(max_steps, max_depth) iterations were made, the two budgets
\* differing, and a forced End application followed.
C5_Witness ==
    /\ pc = "returned"
    /\ max_steps # max_depth
    /\ n_select = Min(max_steps, max_depth)
    /\ n_select >= 2
    /\ n_forced = 1

\* C6: in every path of generate_one_path (a node appended by forced closure
\* included) the first element is the Root node with depth 0 and the i-th
\* element has depth i (counting the root as 0).
C6_DepthIsPosition ==
    pc # "off" =>
        /\ path[1].node_type = "ROOT"
        /\ \A i \in 1..Len(path) : path[i].depth = i - 1

\* A returned path of four nodes whose last node was appended by forced
\* closure.
C6_Witness ==
    /\ pc = "returned"
    /\ Len(path) = 4
    /\ n_forced = 1
    /\ end_nodes # <<>>
    /\ LastOf(path) = end_nodes[1]
    /\ LastOf(path).depth = 3

\* C7: when the loop ends without reaching End, forced closure applies one
\* End action iff the last node's type is SQLGeneration or SQLRevision and
\* appends the first resulting node if there is one; with any other last
\* node, or when End yields no node, the path is returned unchanged and
\* non-terminal.
C7_ForcedClosure ==
    (pc = "returned" /\ ~is_terminal(LastOf(closure_from))) =>
        /\ n_forced = (IF LastOf(closure_from).node_type \in SqlNodeTypes THEN 1 ELSE 0)
        /\ end_nodes # <<>> => path = Append(closure_from, end_nodes[1])
        /\ end_nodes = <<>> => (path = closure_from /\ ~is_terminal(LastOf(path)))

\* The loop broke at a SQLRevision node (a selected action gave no children)
\* and the forced End action returned two nodes, the first of which closes the
\* path.
C7_Witness ==
    /\ pc = "returned"
    /\ n_select > step
    /\ LastOf(closure_from).node_type = "SQL_REVISION"
    /\ n_forced = 1
    /\ Len(end_nodes) = 2
    /\ path = Append(closure_from, end_nodes[1])

\* The loop was left at the depth limit with a SQLGeneration node last.
C8_DepthLimitAtSqlGeneration ==
    /\ pc = "returned"
    /\ LastOf(closure_from).depth >= max_depth
    /\ LastOf(closure_from).node_type = "SQL_GENERATION"

C8_ClosedWithSameSql ==
    /\ Len(path) = Len(closure_from) + 1
    /\ LastOf(path).node_type = "END"
    /\ is_terminal(LastOf(path))
    /\ LastOf(path).final_sql_query = LastOf(closure_from).final_sql_query

\* C8 as claimed: if generation reaches the depth limit while the last node
\* is a SQLGeneration node, the returned path ends with a forced End node, is
\* terminal, and the End node's final SQL is that of the node it was
\* appended to.
C8_Original ==
    C8_DepthLimitAtSqlGeneration => C8_ClosedWithSameSql

\* C8 as amended: the same, provided the forced End application yields a
\* node; when it yields none the path is returned as the loop left it, not
\* terminal.
C8_ForcedEndAtDepthLimit ==
    C8_DepthLimitAtSqlGeneration =>
        /\ n_forced = 1
        /\ end_nodes # <<>> => C8_ClosedWithSameSql
        /\ end_nodes = <<>> => (path = closure_from /\ ~is_terminal(LastOf(path)))

\* The depth limit, not the step limit, stopped the loop at a SQLGeneration
\* node holding q2, and the forced End node carries q2.
C8_Witness ==
    /\ C8_DepthLimitAtSqlGeneration
    /\ step < max_steps
    /\ LastOf(closure_from).final_sql_query = "q2"
    /\ LastOf(path).node_type = "END"
    /\ LastOf(path).final_sql_query = "q2"

\* The actions some valid action space of the node at the end of p holds.
LegalActionsAt(p) ==
    UNION { Range(v) : v \in get_valid_action_space_for_node(p) }

C22_Step ==
    /\ n_select' \in {n_select, n_select + 1}
    /\ step' \in {step, step + 1}
    /\ (pc = "loop" /\ path' # path) => step' = step + 1
    /\ step' = step + 1 =>
          /\ n_select' = n_select + 1
          /\ selected_action' \in LegalActionsAt(path)
          /\ Len(first_child') = 1
          /\ first_child'[1].parent_action = selected_action'
          /\ first_child'[1].depth = LastOf(path).depth + 1
          /\ path' = Append(path, first_child'[1])
          /\ discarded \subseteq discarded'

\* C22: an iteration of the loop that advances selects one action, legal at
\* the current node, applies it to the current node, appends the first
\* returned child to the path and adds exactly 1 to the step count; the path
\* grows in the loop in no other way, and no returned child other than the
\* first ones is ever in the path.
C22_OneActionFirstChild ==
    /\ [][C22_Step]_vars
    /\ [](pc # "off" =>
             /\ Range(path) \cap discarded = {}
             /\ n_select \in {step, step + 1}
             /\ Len(path) = step + 1 + (IF n_forced = 1 /\ end_nodes # <<>> THEN 1 ELSE 0))

\* Three iterations, the SQL generation among them returning two different
\* children: the second one was discarded and is not in the returned path.
C22_Witness ==
    /\ pc = "returned"
    /\ step = 3
    /\ n_select = 3
    /\ Len(path) = 4
    /\ path[3].node_type = "SQL_GENERATION"
    /\ \E c \in discarded :
          /\ c.depth = 2
          /\ c.node_type = "SQL_GENERATION"
          /\ c.final_sql_query # path[3].final_sql_query

IsPrefix(p, q) == Len(p) <= Len(q) /\ SubSeq(q, 1, Len(p)) = p

C23_Step ==
    /\ (left_by = "" /\ left_by' = "no_valid_actions") =>
          /\ pc' = "closure"
          /\ path' = path
          /\ closure_from' = path
          /\ n_select' = n_select
          /\ step' = step
    /\ (left_by = "" /\ left_by' = "no_children") =>
          /\ pc' = "closure"
          /\ path' = path
          /\ closure_from' = path
          /\ n_select' = n_select + 1
          /\ first_child' = <<>>
          /\ step' = step
    /\ n_select' = n_select + 1 => selected_action' \in LegalActionsAt(path)
    /\ pc = "closure" =>
          /\ pc' \in {"returned", "raised"}
          /\ IsPrefix(path, path')
          /\ NeedsForcedEnd(LastOf(path)) => (pc' = "raised" \/ n_forced' = n_forced + 1)
          /\ ~NeedsForcedEnd(LastOf(path)) => (pc' = "returned" /\ path' = path)

C23_State ==
    left_by \in {"no_valid_actions", "no_children"} =>
        /\ pc \in {"closure", "returned", "raised"}
        /\ IsPrefix(closure_from, path)
        /\ Len(closure_from) = step + 1
        /\ pc = "raised" => NeedsForcedEnd(LastOf(closure_from))

\* C23: an empty valid action space (select_action is then not called) or a
\* selected action that returns no children ends the loop without an error:
\* the path built so far is kept, and the code after the loop, the forced
\* closure, runs on it; select_action is only ever called with an action
\* space that has an action.
C23_StuckLeavesLoopQuietly ==
    /\ [][C23_Step]_vars
    /\ []C23_State
    /\ (left_by \in {"no_valid_actions", "no_children"}) ~> (pc \in {"returned", "raised"})

\* A revision applied to a SQLGeneration node returned no children, and the
\* forced closure that followed appended an End node to the kept path.
C23_Witness ==
    /\ pc = "returned"
    /\ left_by = "no_children"
    /\ selected_action = SQLRevisionAction
    /\ Len(closure_from) = 3
    /\ LastOf(closure_from).node_type = "SQL_GENERATION"
    /\ n_forced = 1
    /\ path = Append(closure_from, LastOf(path))
    /\ LastOf(path).node_type = "END"

\* The node has no valid action after two iterations: the path of three
\* nodes is returned as it is.
C23_WitnessNoValidActions ==
    /\ pc = "returned"
    /\ left_by = "no_valid_actions"
    /\ step = 2
    /\ path = closure_from
    /\ Len(path) = 3

\* The node types of the first n nodes of p.
TypesUpTo(p, n) == { p[j].node_type : j \in 1..n }

C27_State ==
    pc # "off" =>
        /\ \A i \in 1..Len(path) :
              path[i].node_type = "SQL_GENERATION"
                 => "SCHEMA_SELECTION" \in TypesUpTo(path, i - 1)
        /\ (pc = "loop" /\ SQLGenerationAction \in LegalActionsAt(path))
              => "SCHEMA_SELECTION" \in TypesUpTo(path, Len(path))

C27_Step ==
    (n_select' = n_select + 1 /\ selected_action' = SQLGenerationAction)
        => "SCHEMA_SELECTION" \in TypesUpTo(path, Len(path))

\* C27: whatever the model invocation answers, and so whichever of the two
\* strategies decides, SQLGeneration is selected only on a path that holds
\* a SchemaSelection node (it is legal only there), and every SQLGeneration
\* node of a path has a SchemaSelection node before it.
C27_SqlGenerationAfterSchemaSelection ==
    []C27_State /\ [][C27_Step]_vars

\* A returned path: root, rephrased question, schema selection, SQL
\* generation, and the End selected in the loop.
C27_Witness ==
    /\ pc = "returned"
    /\ Len(path) = 5
    /\ path[2].node_type = "REPHRASE_QUESTION"
    /\ path[3].node_type = "SCHEMA_SELECTION"
    /\ path[4].node_type = "SQL_GENERATION"
    /\ path[5].node_type = "END"
    /\ n_forced = 0

C28_State ==
    pc # "off" =>
        /\ LastOf(path).node_type = "END"
              => "SQL_GENERATION" \in TypesUpTo(path, Len(path) - 1)
        /\ (n_forced = 1 /\ end_nodes # <<>>) =>
              /\ LastOf(closure_from).node_type \in SqlNodeTypes
              /\ "SQL_GENERATION" \in TypesUpTo(closure_from, Len(closure_from))

C28_Step ==
    (n_select' = n_select + 1 /\ selected_action' = EndAction)
        => "SQL_GENERATION" \in TypesUpTo(path, Len(path))

\* C28: a path that ends in an End node holds a SQLGeneration node before
\* it: End is selected in the loop only on a path that holds one, and the
\* forced closure appends End only to a SQLGeneration or SQLRevision node,
\* which is, or comes after, a SQLGeneration node.
C28_EndAfterSqlGeneration ==
    []C28_State /\ [][C28_Step]_vars

\* The step budget ended the loop at a SQLRevision node and the forced
\* closure appended the End node.
C28_Witness ==
    /\ pc = "returned"
    /\ left_by = "condition"
    /\ step = max_steps
    /\ Len(closure_from) = 4
    /\ closure_from[3].node_type = "SQL_GENERATION"
    /\ closure_from[4].node_type = "SQL_REVISION"
    /\ n_forced = 1
    /\ Len(path) = 5
    /\ LastOf(path).node_type = "END"

\* End was selected in the loop at a SQLGeneration node.
C28_WitnessSelected ==
    /\ pc = "returned"
    /\ selected_action = EndAction
    /\ n_forced = 0
    /\ Len(path) = 4
    /\ path[3].node_type = "SQL_GENERATION"
    /\ path[4].node_type = "END"

\* The actions the heuristic strategy can return at the end of p.
HeuristicChoices(p) ==
    { _default_action_selection(p, v) :
        v \in get_valid_action_space_for_node(p) \ {<<>>} }

C29_State ==
    pc # "off" =>
        /\ \A i \in 1..Len(path) :
              /\ path[i].node_type # "SQL_REVISION"
              /\ (path[i].node_type = "SQL_GENERATION" /\ i < Len(path))
                    => path[i + 1].node_type = "END"
        /\ (pc = "loop" /\ ~is_terminal(LastOf(path))) =>
              /\ LastOf(path).node_type \in SqlNodeTypes
                    => \A v \in get_valid_action_space_for_node(path) :
                          EndAction \in Range(v)
              /\ SQLRevisionAction \in LegalActionsAt(path)
                    => LastOf(path).node_type \in SqlNodeTypes

C29_Step ==
    n_select' = n_select + 1 =>
        /\ selected_action' \in HeuristicChoices(path)
        /\ selected_action' # SQLRevisionAction
        /\ "SQL_GENERATION" \in TypesUpTo(path, Len(path))
              => selected_action' = EndAction

LoopAppended ==
    { i \in 2..Len(path) : ~(i = Len(path) /\ n_forced = 1 /\ end_nodes # <<>>) }

\* C31: from the depth-0 root, every node the loop appended has depth at
\* most max_depth; a node of depth max_depth + 1 is the last one, an End
\* node appended by the forced closure, and no node is deeper; the path has
\* at most min(max_steps, max_depth) + 2 nodes.
C31_DepthAndLengthBudget ==
    pc # "off" =>
        /\ path[1].depth = 0
        /\ \A i \in LoopAppended : path[i].depth <= max_depth
        /\ \A i \in 1..Len(path) :
              /\ path[i].depth <= max_depth + 1
              /\ path[i].depth = max_depth + 1 =>
                    /\ i = Len(path)
                    /\ path[i].node_type = "END"
                    /\ n_forced = 1
                    /\ end_nodes # <<>>
                    /\ path = Append(closure_from, end_nodes[1])
        /\ Len(path) <= Min(max_steps, max_depth) + 2

\* The depth budget of 2 ended the loop at a SQLGeneration node of depth 2
\* and the forced closure appended an End node of depth 3: four nodes.
C31_Witness ==
    /\ pc = "returned"
    /\ max_depth = 2
    /\ max_steps = 3
    /\ Len(path) = Min(max_steps, max_depth) + 2
    /\ path[3].node_type = "SQL_GENERATION"
    /\ path[3].depth = max_depth
    /\ LastOf(path).node_type = "END"
    /\ LastOf(path).depth = max_depth + 1
    /\ n_forced = 1

(***************************************************************************)
(* generate_one_path as one call: the set of its outcomes, a returned path *)
(* or an exception, computed from the same loop condition, selection,      *)
(* application and closure as the steps above.                             *)
(***************************************************************************)
RaisedOutcome == [raised |-> TRUE, path |-> <<>>]

ReturnedOutcome(p) == [raised |-> FALSE, path |-> p]

\* Lines 86-95 on the path p the loop left.
ClosureOutcomes(p) ==
    IF NeedsForcedEnd(p[Len(p)])
    THEN {RaisedOutcome}
         \cup { ReturnedOutcome(IF nodes # <<>> THEN Advance(p, nodes) ELSE p) :
                  nodes \in create_children_nodes(p[Len(p)], EndAction) }
    ELSE {ReturnedOutcome(p)}

RECURSIVE LoopOutcomes(_, _, _, _)
LoopOutcomes(p, stp, ms, md) ==
    IF ~LoopCondition(p[Len(p)], stp, ms, md)
    THEN ClosureOutcomes(p)
    ELSE (IF <<>> \in get_valid_action_space_for_node(p)
          THEN ClosureOutcomes(p) ELSE {})
         \cup (IF SelectableActions(p) # {}
               THEN {RaisedOutcome} \cup ClosureOutcomes(p) ELSE {})
         \cup UNION { LoopOutcomes(Advance(p, children), stp + 1, ms, md) :
                        children \in
                            UNION { create_children_nodes(p[Len(p)], a) \ {<<>>} :
                                      a \in SelectableActions(p) } }

generate_one_path(root_node, ms, md) == LoopOutcomes(<<root_node>>, 0, ms, md)

\* The outcomes for every configuration solve is run with.
GeneratedOutcomes ==
    [ms \in 0..MaxSolveSteps, md \in 0..MaxSolveDepth |->
        generate_one_path(RootNode, ms, md)]

(***************************************************************************)
(* LLMGuidedSolver.solve                                                   *)
(***************************************************************************)
\* Mutant: the path is kept whether or not it reached a terminal node.
KeepPath_Always(paths, p) ==
    Append(paths, p)

\* Mutant: a kept path is put in front of the earlier ones.
KeepPath_InFront(paths, p) ==
    IF is_terminal(p[Len(p)]) THEN <<p>> \o paths ELSE paths

\* if path[-1].is_terminal(): all_reasoning_paths.append(path)
KeepPath(paths, p) ==
    IF is_terminal(p[Len(p)]) THEN Append(paths, p) ELSE paths

\* Mutant: the loop makes one attempt too few.
MoreAttempts_OneLess(idx, n) ==
    idx + 1 < n

\* for path_idx in range(self.num_paths)
MoreAttempts(idx, n) ==
    idx < n

\* The generator variables solve does not look at.
GenLocalsUnused ==
    /\ step = 0
    /\ n_select = 0
    /\ closure_from = <<>>
    /\ n_forced = 0
    /\ end_nodes = <<>>
    /\ selected_action = NoAction
    /\ first_child = <<>>
    /\ discarded = {}
    /\ left_by = ""

SolveInit ==
    /\ num_paths \in 0..MaxPaths
    /\ llm_responses = Responses
    /\ max_steps \in 0..MaxSolveSteps
    /\ max_depth \in 0..MaxSolveDepth
    /\ solve_pc = "setup"
    /\ path_idx = 0
    /\ all_reasoning_paths = <<>>
    /\ attempts = 0
    /\ save_file = NoFile
    /\ path = <<>>
    /\ pc = "off"
    /\ GenLocalsUnused
    /\ SelOff
    /\ PickOff
    /\ RunnerOff
    /\ MainOff
    /\ CompareOff

\* Lines 101-125: the schema context and the root node are built.
SolveSetup ==
    /\ solve_pc = "setup"
    /\ solve_pc' = "loop"
    /\ UNCHANGED <<num_paths, path_idx, all_reasoning_paths, attempts, save_file>>
    /\ UNCHANGED genVars
    /\ UNCHANGED notSolve

\* Lines 101-123 raise: solve ends before any attempt and before the save.
SolveSetupRaises ==
    /\ solve_pc = "setup"
    /\ solve_pc' = "failed"
    /\ UNCHANGED <<num_paths, path_idx, all_reasoning_paths, attempts, save_file>>
    /\ UNCHANGED genVars
    /\ UNCHANGED notSolve

\* Line 134: one call of generate_one_path, which returns a path or raises.
GenerateOnePath ==
    /\ solve_pc = "loop"
    /\ pc = "off"
    /\ MoreAttempts(path_idx, num_paths)
    /\ \E outcome \in GeneratedOutcomes[max_steps, max_depth] :
          /\ path' = outcome.path
          /\ pc' = IF outcome.raised THEN "raised" ELSE "returned"
    /\ attempts' = attempts + 1
    /\ UNCHANGED <<llm_responses, max_steps, max_depth, step, n_select, closure_from, n_forced, end_nodes>>
    /\ UNCHANGED <<selected_action, first_child, discarded, left_by>>
    /\ UNCHANGED <<num_paths, solve_pc, path_idx, all_reasoning_paths, save_file>>
    /\ UNCHANGED notSolve

\* Lines 137-142: the returned path is kept if its last node is terminal.
HandlePath ==
    /\ solve_pc = "loop"
    /\ pc = "returned"
    /\ all_reasoning_paths' = KeepPath(all_reasoning_paths, path)
    /\ path_idx' = path_idx + 1
    /\ path' = <<>>
    /\ pc' = "off"
    /\ UNCHANGED <<llm_responses, max_steps, max_depth, step, n_select, closure_from, n_forced, end_nodes>>
    /\ UNCHANGED <<selected_action, first_child, discarded, left_by>>
    /\ UNCHANGED <<num_paths, solve_pc, attempts, save_file>>
    /\ UNCHANGED notSolve

\* Lines 144-147: the exception of the attempt is caught and printed.
HandleException ==
    /\ solve_pc = "loop"
    /\ pc = "raised"
    /\ path_idx' = path_idx + 1
    /\ path' = <<>>
    /\ pc' = "off"
    /\ UNCHANGED <<llm_responses, max_steps, max_depth, step, n_select, closure_from, n_forced, end_nodes>>
    /\ UNCHANGED <<selected_action, first_child, discarded, left_by>>
    /\ UNCHANGED <<num_paths, solve_pc, all_reasoning_paths, attempts, save_file>>
    /\ UNCHANGED notSolve

\* Lines 149-158: the kept paths are written to <question_id>.pkl.
SavePaths ==
    /\ solve_pc = "loop"
    /\ pc = "off"
    /\ ~MoreAttempts(path_idx, num_paths)
    /\ save_file' = [exists |-> TRUE, paths |-> all_reasoning_paths]
    /\ solve_pc' = "saved"
    /\ UNCHANGED <<num_paths, path_idx, all_reasoning_paths, attempts>>
    /\ UNCHANGED genVars
    /\ UNCHANGED notSolve

SolveNext ==
    \/ SolveSetup
    \/ SolveSetupRaises
    \/ GenerateOnePath
    \/ HandlePath
    \/ HandleException
    \/ SavePaths

SpecSolve == SolveInit /\ [][SolveNext]_vars

(***************************************************************************)
(* solve with each call of generate_one_path taken step by step: the call  *)
(* is entered, the loop and closure steps of the generator run on its      *)
(* locals, and solve handles what the call returned or raised.             *)
(***************************************************************************)
\* Mutant: the step count of the call before is carried into the next call.
LocalsAtEntry_StepOne(root_node) ==
    [path |-> <<root_node>>, step |-> 1]

\* current = root_node; path = [root_node]; step = 0
LocalsAtEntry(root_node) ==
    [path |-> <<root_node>>, step |-> 0]

CallsInit ==
    /\ num_paths \in 0..MaxPaths
    /\ llm_responses = Responses
    /\ max_steps \in 0..MaxSolveSteps
    /\ max_depth \in 0..MaxSolveDepth
    /\ solve_pc = "setup"
    /\ path_idx = 0
    /\ all_reasoning_paths = <<>>
    /\ attempts = 0
    /\ save_file = NoFile
    /\ path = <<>>
    /\ pc = "off"
    /\ GenLocalsUnused
    /\ SelOff
    /\ PickOff
    /\ RunnerOff
    /\ MainOff
    /\ CompareOff

\* Line 134 calls generate_one_path(root_node); lines 55-58 set its locals.
EnterGenerateOnePath ==
    /\ solve_pc = "loop"
    /\ pc = "off"
    /\ MoreAttempts(path_idx, num_paths)
    /\ path' = LocalsAtEntry(RootNode).path
    /\ step' = LocalsAtEntry(RootNode).step
    /\ pc' = "loop"
    /\ n_select' = 0
    /\ closure_from' = <<>>
    /\ n_forced' = 0
    /\ end_nodes' = <<>>
    /\ selected_action' = NoAction
    /\ first_child' = <<>>
    /\ discarded' = {}
    /\ left_by' = ""
    /\ attempts' = attempts + 1
    /\ UNCHANGED <<llm_responses, max_steps, max_depth>>
    /\ UNCHANGED <<num_paths, solve_pc, path_idx, all_reasoning_paths, save_file>>
    /\ UNCHANGED notSolve

CallsNext ==
    \/ SolveSetup
    \/ SolveSetupRaises
    \/ EnterGenerateOnePath
    \/ GenNext
    \/ HandlePath
    \/ HandleException
    \/ SavePaths

SpecCalls == CallsInit /\ [][CallsNext]_vars

(***************************************************************************)
(* Claims about solve                                                      *)
(***************************************************************************)
\* C9 (end state): when solve has written the task's file it has made
\* exactly num_paths attempts, and the file holds the kept sequence, every
\* path of which ends in an End node; so at most num_paths paths.
C9_SavedState ==
    solve_pc = "saved" =>
        /\ attempts = num_paths
        /\ path_idx = num_paths
        /\ save_file.exists
        /\ save_file.paths = all_reasoning_paths
        /\ Len(save_file.paths) <= num_paths
        /\ \A i \in 1..Len(save_file.paths) :
              LET p == save_file.paths[i] IN p[Len(p)].node_type = "END"

\* C9: solve makes exactly num_paths generation attempts; an attempt that
\* raises or ends non-terminal does not stop the remaining attempts (the
\* loop goes on with the kept paths unchanged); each attempt whose path
\* ends in End is appended after the paths kept before it, so the persisted
\* sequence holds exactly the paths whose last node is End, in generation
\* order.
C9_PersistsTerminalPathsInOrder ==
    /\ []C9_SavedState
    /\ [](solve_pc = "loop" => (attempts <= num_paths /\ path_idx <= attempts))
    /\ [][path_idx' # path_idx =>
            /\ path_idx' = path_idx + 1
            /\ solve_pc' = "loop"
            /\ all_reasoning_paths' =
                  IF pc = "returned" /\ path[Len(path)].node_type = "END"
                  THEN all_reasoning_paths \o <<path>>
                  ELSE all_reasoning_paths]_vars
    /\ [][(solve_pc = "loop" /\ path_idx' = path_idx)
            => all_reasoning_paths' = all_reasoning_paths]_vars

\* The first attempt did not end in a kept path (it raised or came back
\* non-terminal); the second did; the file holds that one path.
C9_Witness ==
    /\ solve_pc = "saved"
    /\ num_paths = 2
    /\ attempts = 2
    /\ Len(save_file.paths) = 1

C24_Step ==
    /\ (pc = "off" /\ pc' = "loop") =>
          /\ step' = 0
          /\ path' = <<RootNode>>
          /\ all_reasoning_paths' = all_reasoning_paths
    /\ pc \in {"loop", "closure"} =>
          /\ all_reasoning_paths' = all_reasoning_paths
          /\ IsPrefix(path, path')
    /\ IsPrefix(all_reasoning_paths, all_reasoning_paths')

C24_State ==
    /\ \A i \in 1..Len(all_reasoning_paths) : all_reasoning_paths[i][1] = RootNode
    /\ pc \in {"loop", "closure", "returned"} =>
          /\ path[1] = RootNode
          /\ Len(path) = step + 1 + (IF end_nodes # <<>> THEN 1 ELSE 0)
    /\ pc = "returned" =>
          ReturnedOutcome(path) \in generate_one_path(RootNode, max_steps, max_depth)

\* C24: every call of generate_one_path that solve makes starts with step
\* count 0 and a path holding only the root; while it runs it only appends
\* to its own path, and the root node and the paths returned by earlier
\* calls stay as they were; what it returns is an outcome of one call from
\* the root, whatever the calls before it did.
C24_CallsShareNoState ==
    [][C24_Step]_vars /\ []C24_State

\* The second call took two steps and was closed by a forced End; its path
\* differs from the one the first call returned, which is kept as it was.
C24_Witness ==
    /\ path_idx = 1
    /\ attempts = 2
    /\ Len(all_reasoning_paths) = 1
    /\ pc = "returned"
    /\ step = 2
    /\ LastOf(path).node_type = "END"
    /\ n_forced = 1
    /\ Len(all_reasoning_paths[1]) = 4
    /\ all_reasoning_paths[1] # path

(***************************************************************************)
(* select_final_sql_query.  The oracle gives every SQL one execution       *)
(* result, a failure or a success with a list of rows that the validity    *)
(* predicate accepts or not; the latency measured for a SQL is whatever    *)
(* the run measures.                                                       *)
(***************************************************************************)
Rows == {"r1", "r2"}

Answers ==
    { [result_type |-> "failure", result |-> <<>>, valid |-> FALSE] }
    \cup { [result_type |-> "success", result |-> r, valid |-> v] :
             r \in SeqsUpTo(Rows, MaxRows), v \in BOOLEAN }

\* A persisted path whose End node carries the SQL q.
TerminalPath(q) ==
    << RootNode, MkNode(SchemaSelectionAction, 1, NoSql),
       MkNode(SQLGenerationAction, 2, q), MkNode(EndAction, 3, q) >>

\* result[-1].final_sql_query
final_sql_query(result) == result[Len(result)].final_sql_query

is_valid_execution_result(answer) == answer.valid

\* Mutant: the group key is the list of rows, in order.
frozenset_KeepsOrder(rows) == rows

frozenset(rows) == { rows[i] : i \in 1..Len(rows) }

\* Mutant: the index is put in front of the group's list.
AppendToGroup_InFront(groups, key, idx) ==
    IF \E g \in 1..Len(groups) : groups[g].answer = key
    THEN LET g == CHOOSE g \in 1..Len(groups) : groups[g].answer = key
         IN  [groups EXCEPT ![g].path_indices = <<idx>> \o @]
    ELSE Append(groups, [answer |-> key, path_indices |-> <<idx>>])

\* groups[key].append(idx) on a defaultdict(list), which keeps its keys in
\* the order of their first insertion.
AppendToGroup(groups, key, idx) ==
    IF \E g \in 1..Len(groups) : groups[g].answer = key
    THEN LET g == CHOOSE g \in 1..Len(groups) : groups[g].answer = key
         IN  [groups EXCEPT ![g].path_indices = Append(@, idx)]
    ELSE Append(groups, [answer |-> key, path_indices |-> <<idx>>])

\* Mutant: a failed execution is grouped like a successful one.
GroupStep_FailureNotSkipped(groups, answer, idx, with_invalid) ==
    IF with_invalid \/ is_valid_execution_result(answer)
    THEN AppendToGroup(groups, frozenset(answer.result), idx)
    ELSE groups

\* Lines 31-34 for one path, on one of the two dictionaries.
GroupStep(groups, answer, idx, with_invalid) ==
    IF answer.result_type = "success"
       /\ (with_invalid \/ is_valid_execution_result(answer))
    THEN AppendToGroup(groups, frozenset(answer.result), idx)
    ELSE groups

\* Lines 28-34: the dictionary after the first n paths; idx counts from 0.
RECURSIVE GroupPaths(_, _, _, _)
GroupPaths(rs, ans, n, with_invalid) ==
    IF n = 0 THEN <<>>
    ELSE GroupStep(GroupPaths(rs, ans, n - 1, with_invalid),
                   ans[final_sql_query(rs[n])], n - 1, with_invalid)

RECURSIVE SumOfSizes(_, _)
SumOfSizes(groups, n) ==
    IF n = 0 THEN 0 ELSE Len(groups[n].path_indices) + SumOfSizes(groups, n - 1)

\* Mutant: the entry of a group is made from its last member.
ScoreEntries_LastMember(groups, rs, tm) ==
    [g \in 1..Len(groups) |->
        LET last == groups[g].path_indices[Len(groups[g].path_indices)]
        IN  [path_idx |-> last,
             sc_score |-> [num |-> Len(groups[g].path_indices),
                           den |-> SumOfSizes(groups, Len(groups))],
             execution_time |-> tm[final_sql_query(rs[last + 1])]]]

\* Lines 82-85: one entry per group: its first path, its score (the group
\* size over the sum of all group sizes), the latency of its first path's SQL.
ScoreEntries(groups, rs, tm) ==
    [g \in 1..Len(groups) |->
        [path_idx |-> groups[g].path_indices[1],
         sc_score |-> [num |-> Len(groups[g].path_indices),
                       den |-> SumOfSizes(groups, Len(groups))],
         execution_time |-> tm[final_sql_query(rs[groups[g].path_indices[1] + 1])]]]

\* Mutant: the latency is compared before the score.
KeyLess_LatencyFirst(a, b) ==
    \/ (0 - a.execution_time) < (0 - b.execution_time)
    \/ /\ a.execution_time = b.execution_time
       /\ a.sc_score.num * b.sc_score.den < b.sc_score.num * a.sc_score.den

\* Mutant: among equal scores the slower entry ranks higher.
KeyLess_SlowerFirst(a, b) ==
    \/ a.sc_score.num * b.sc_score.den < b.sc_score.num * a.sc_score.den
    \/ /\ a.sc_score.num * b.sc_score.den = b.sc_score.num * a.sc_score.den
       /\ a.execution_time < b.execution_time

\* The sort key (x[1], -x[2]) of a is smaller than that of b.
KeyLess(a, b) ==
    \/ a.sc_score.num * b.sc_score.den < b.sc_score.num * a.sc_score.den
    \/ /\ a.sc_score.num * b.sc_score.den = b.sc_score.num * a.sc_score.den
       /\ (0 - a.execution_time) < (0 - b.execution_time)

\* list.sort(key=..., reverse=True): descending, entries of equal key stay
\* in their order.
RECURSIVE InsertDescending(_, _)
InsertDescending(sorted, x) ==
    IF sorted = <<>> THEN <<x>>
    ELSE IF KeyLess(Head(sorted), x) THEN <<x>> \o sorted
    ELSE <<Head(sorted)>> \o InsertDescending(Tail(sorted), x)

RECURSIVE SortDescending(_, _)
SortDescending(entries, n) ==
    IF n = 0 THEN <<>>
    ELSE InsertDescending(SortDescending(entries, n - 1), entries[n])

\* Mutant: the entries are sorted from the last group to the first, so that
\* among entries of equal key the group seen last comes first.
RankGroups_LastSeenFirst(groups, rs, tm) ==
    LET entries == ScoreEntries(groups, rs, tm)
        n == Len(groups)
    IN  SortDescending([i \in 1..n |-> entries[n + 1 - i]], n)

\* Lines 81-94 (and 40-64 on the other dictionary): rank and take the top.
RankGroups(groups, rs, tm) ==
    SortDescending(ScoreEntries(groups, rs, tm), Len(groups))

ItemOf(rs, ranked) ==
    [db_id |-> rs[1][1].db_id,
     sql |-> final_sql_query(rs[ranked[1].path_idx + 1]),
     path_idx |-> ranked[1].path_idx]

\* Mutant: the invalid-inclusive partition is ranked whenever it has the
\* larger group.
PartitionToRank_LargestGroup(rg, rgi) ==
    IF Len(rg) = 0 THEN rgi
    ELSE IF \E h \in 1..Len(rgi) : \A g \in 1..Len(rg) :
               Len(rgi[h].path_indices) > Len(rg[g].path_indices)
         THEN rgi
         ELSE rg

\* Lines 36 and 39: the invalid-inclusive dictionary is ranked only when the
\* primary one is empty.
PartitionToRank(rg, rgi) == IF Len(rg) = 0 THEN rgi ELSE rg

select_final_sql_query(rs, ans, tm) ==
    IF Len(rs) = 0
    THEN [result_groups |-> <<>>, result_groups_with_invalid_result |-> <<>>,
          path_idx_with_sc_score |-> <<>>,
          item |-> [db_id |-> "financial", sql |-> "ERROR", path_idx |-> 0 - 1]]
    ELSE LET rg == GroupPaths(rs, ans, Len(rs), FALSE)
             rgi == GroupPaths(rs, ans, Len(rs), TRUE)
             ranked == RankGroups(PartitionToRank(rg, rgi), rs, tm)
         IN  [result_groups |-> rg, result_groups_with_invalid_result |-> rgi,
              path_idx_with_sc_score |-> ranked,
              item |-> IF ranked = <<>>
                       THEN [db_id |-> rs[1][1].db_id, sql |-> "ERROR",
                             path_idx |-> 0 - 1]
                       ELSE ItemOf(rs, ranked)]

PickInit ==
    /\ results \in SeqsUpTo({ TerminalPath(q) : q \in Sqls }, MaxResults)
    /\ answers \in [Sqls -> Answers]
    /\ times \in [Sqls -> 1..MaxLatency]
    /\ result_groups = <<>>
    /\ result_groups_with_invalid_result = <<>>
    /\ path_idx_with_sc_score = <<>>
    /\ selected_item = NoItem
    /\ pick_pc = "ready"
    /\ RerunOff
    /\ SelOff
    /\ GenOff
    /\ SolveOff
    /\ RunnerOff
    /\ MainOff
    /\ CompareOff

SelectFinalSqlQuery ==
    /\ pick_pc = "ready"
    /\ LET out == select_final_sql_query(results, answers, times)
       IN  /\ result_groups' = out.result_groups
           /\ result_groups_with_invalid_result' = out.result_groups_with_invalid_result
           /\ path_idx_with_sc_score' = out.path_idx_with_sc_score
           /\ selected_item' = out.item
    /\ pick_pc' = "done"
    /\ UNCHANGED <<results, answers, times>>
    /\ UNCHANGED rerunVars
    /\ UNCHANGED notPick

PickNext == SelectFinalSqlQuery

SpecSelection == PickInit /\ [][PickNext]_vars

\* The lists that hold the paths of rs in some order.
Reorderings(rs) ==
    { [i \in 1..Len(rs) |-> rs[p[i]]] : p \in Permutations(1..Len(rs)) }

\* A second call on a results file holding the same paths in another order,
\* with the same oracle and the same measurements.
SelectFinalSqlQueryReordered ==
    /\ pick_pc = "done"
    /\ \E rs \in Reorderings(results) :
          /\ rerun_results' = rs
          /\ rerun_out' = select_final_sql_query(rs, answers, times)
    /\ pick_pc' = "rerun"
    /\ UNCHANGED notRerun

RerunNext == SelectFinalSqlQuery \/ SelectFinalSqlQueryReordered

SpecReordered == PickInit /\ [][RerunNext]_vars

(***************************************************************************)
(* LLMGuidedRunner: run_all_tasks and run_one_task.  The tasks are solved  *)
(* by worker processes, so their run_one_task calls return in any order.   *)
(***************************************************************************)
TaskIds == 1..MaxTasks

\* The worker processes of the pool (config.n_processes of them).
Workers == 1..MaxWorkers

\* The tasks of the tasks file, by question_id.
TasksFile == [i \in 1..MaxTasks |-> i]

\* What solve() can leave in <question_id>.pkl: the terminal paths it kept,
\* with the configured number of paths set to its default.
SavedLists == SeqsUpTo({ TerminalPath(q) : q \in Sqls }, 1)

Artifacts == { [exists |-> TRUE, paths |-> c] : c \in SavedLists }

\* How one call of solve() ends: it raises before it saves, or it saves.
SolveResults ==
    { [raised |-> TRUE, paths |-> <<>>] }
    \cup { [raised |-> FALSE, paths |-> c] : c \in SavedLists }

NoSubset == [given |-> FALSE, ids |-> {}]

SubsetFiles == { NoSubset } \cup { [given |-> TRUE, ids |-> S] : S \in SUBSET TaskIds }

\* Mutant: a file that holds an empty list does not count as done.
DoneTaskIds_NonEmptyOnly(dir) ==
    { id \in TaskIds : dir[id].exists /\ dir[id].paths # <<>> }

\* Lines 86-88: the stems of the *.pkl files of the output directory.
DoneTaskIds(dir) == { id \in TaskIds : dir[id].exists }

\* Mutant: tasks that have an artifact are not filtered out.
PendingTasks_DoneNotSkipped(file_tasks, subset, done) ==
    LET InSubset(t) == (~subset.given) \/ t \in subset.ids
    IN  SelectSeq(file_tasks, InSubset)

\* Lines 78-90: the subset filter, then the filter of the done tasks.
PendingTasks(file_tasks, subset, done) ==
    LET InSubset(t) == (~subset.given) \/ t \in subset.ids
        NotDone(t) == t \notin done
    IN  SelectSeq(SelectSeq(file_tasks, InSubset), NotDone)

\* Mutant: solve() is called outside any try, its error leaves run_one_task.
run_one_task_NoTry(dir, t, outcome) ==
    [save_root_dir |-> IF outcome.raised THEN dir
                       ELSE [dir EXCEPT ![t] = [exists |-> TRUE, paths |-> outcome.paths]],
     gave_up |-> FALSE,
     escaped |-> outcome.raised]

\* Lines 52-72: solve() inside try/except Exception; the directory after
\* the call, whether the task was given up, whether an error left the call.
run_one_task(dir, t, outcome) ==
    [save_root_dir |-> IF outcome.raised THEN dir
                       ELSE [dir EXCEPT ![t] = [exists |-> TRUE, paths |-> outcome.paths]],
     gave_up |-> outcome.raised,
     escaped |-> FALSE]

\* Mutant: every task is handed to the pool twice.
Submit_Twice(pending) == pending \o pending

\* executor.map(self.run_one_task, tasks): one work item per element of
\* tasks, in the order of the list.
Submit(pending) == pending

\* No work item has been submitted and every worker process is idle.
WorkersIdle ==
    /\ call_queue = <<>>
    /\ in_flight = [w \in Workers |-> 0]
    /\ n_runs = [t \in TaskIds |-> 0]
    /\ n_writes = [t \in TaskIds |-> 0]

RunnerInit ==
    /\ save_root_dir \in [TaskIds -> { NoFile } \cup Artifacts]
    /\ config_json = FALSE
    /\ subset_ids \in SubsetFiles
    /\ tasks = <<>>
    /\ done_task_ids = {}
    /\ solved = {}
    /\ gave_up = {}
    /\ run_no = 1
    /\ runner_pc = "start"
    /\ WorkersIdle
    /\ SelOff
    /\ GenOff
    /\ SolveOff
    /\ PickOff
    /\ MainOff
    /\ CompareOff

\* Lines 74-99: load and filter the tasks, write config.json, hand the
\* pending tasks to the pool.
RunAllTasks ==
    /\ runner_pc = "start"
    /\ done_task_ids' = DoneTaskIds(save_root_dir)
    /\ tasks' = PendingTasks(TasksFile, subset_ids, DoneTaskIds(save_root_dir))
    /\ config_json' = TRUE
    /\ runner_pc' = "map"
    /\ call_queue' = Submit(PendingTasks(TasksFile, subset_ids, DoneTaskIds(save_root_dir)))
    /\ solved' = {}
    /\ gave_up' = {}
    /\ UNCHANGED <<save_root_dir, subset_ids, run_no>>
    /\ UNCHANGED <<in_flight, n_runs, n_writes>>
    /\ UNCHANGED notRunner

\* Line 99, one task: a worker runs run_one_task on it.
RunOneTask ==
    /\ runner_pc = "map"
    /\ \E i \in 1..Len(tasks) : \E outcome \in SolveResults :
          /\ tasks[i] \notin solved
          /\ LET r == run_one_task(save_root_dir, tasks[i], outcome)
             IN  /\ save_root_dir' = r.save_root_dir
                 /\ gave_up' = IF r.gave_up THEN gave_up \cup { tasks[i] } ELSE gave_up
                 /\ runner_pc' = IF r.escaped THEN "aborted" ELSE "map"
          /\ solved' = solved \cup { tasks[i] }
    /\ UNCHANGED <<config_json, subset_ids, tasks, done_task_ids, run_no>>
    /\ UNCHANGED workerVars
    /\ UNCHANGED notRunner

\* Line 99: every result of executor.map has been collected.
RunAllTasksReturns ==
    /\ runner_pc = "map"
    /\ solved = Range(tasks)
    /\ runner_pc' = "finished"
    /\ UNCHANGED <<save_root_dir, config_json, subset_ids, tasks, done_task_ids,
                   solved, gave_up, run_no>>
    /\ UNCHANGED workerVars
    /\ UNCHANGED notRunner

\* The batch is invoked again on the same output directory.
InvokeAgain ==
    /\ runner_pc = "finished"
    /\ run_no < MaxRuns
    /\ run_no' = run_no + 1
    /\ tasks' = <<>>
    /\ done_task_ids' = {}
    /\ runner_pc' = "start"
    /\ call_queue' = <<>>
    /\ UNCHANGED <<save_root_dir, config_json, subset_ids, solved, gave_up>>
    /\ UNCHANGED <<in_flight, n_runs, n_writes>>
    /\ UNCHANGED notRunner

RunnerNext == RunAllTasks \/ RunOneTask \/ RunAllTasksReturns \/ InvokeAgain

SpecRunner == RunnerInit /\ [][RunnerNext]_vars

\* Every submitted task is run by some worker, and the batch returns.
FairSpecRunner == SpecRunner /\ WF_vars(RunOneTask) /\ WF_vars(RunAllTasksReturns)

(***************************************************************************)
(* One invocation of run_all_tasks with the worker processes of the pool   *)
(* told apart: a worker takes the next work item, runs run_one_task on it  *)
(* while the other workers run theirs, and takes the next one.             *)
(***************************************************************************)
\* An idle worker takes the first waiting work item and calls run_one_task.
WorkerTakes ==
    /\ runner_pc = "map"
    /\ call_queue # <<>>
    /\ \E w \in Workers :
          /\ in_flight[w] = 0
          /\ in_flight' = [in_flight EXCEPT ![w] = Head(call_queue)]
    /\ n_runs' = [n_runs EXCEPT ![Head(call_queue)] = @ + 1]
    /\ call_queue' = Tail(call_queue)
    /\ UNCHANGED <<save_root_dir, config_json, subset_ids, tasks, done_task_ids,
                   solved, gave_up, run_no, runner_pc, n_writes>>
    /\ UNCHANGED notRunner

\* The run_one_task call of a worker returns: solve() has written the
\* task's file, or has raised and the task was given up.
WorkerFinishes ==
    /\ runner_pc = "map"
    /\ \E w \in Workers : \E outcome \in SolveResults :
          /\ in_flight[w] # 0
          /\ LET t == in_flight[w]
                 r == run_one_task(save_root_dir, t, outcome)
             IN  /\ save_root_dir' = r.save_root_dir
                 /\ gave_up' = IF r.gave_up THEN gave_up \cup { t } ELSE gave_up
                 /\ runner_pc' = IF r.escaped THEN "aborted" ELSE "map"
                 /\ solved' = solved \cup { t }
                 /\ n_writes' = IF outcome.raised THEN n_writes
                                ELSE [n_writes EXCEPT ![t] = @ + 1]
          /\ in_flight' = [in_flight EXCEPT ![w] = 0]
    /\ UNCHANGED <<config_json, subset_ids, tasks, done_task_ids, run_no,
                   call_queue, n_runs>>
    /\ UNCHANGED notRunner

\* Line 99: list(...) has every result of executor.map, the pool is closed.
WorkersDone ==
    /\ runner_pc = "map"
    /\ call_queue = <<>>
    /\ \A w \in Workers : in_flight[w] = 0
    /\ runner_pc' = "finished"
    /\ UNCHANGED <<save_root_dir, config_json, subset_ids, tasks, done_task_ids,
                   solved, gave_up, run_no>>
    /\ UNCHANGED workerVars
    /\ UNCHANGED notRunner

WorkersNext ==
    \/ RunAllTasks
    \/ WorkerTakes
    \/ WorkerFinishes
    \/ WorkersDone

SpecWorkers == RunnerInit /\ [][WorkersNext]_vars

(***************************************************************************)
(* main of sql_selection: one select_final_sql_query call per results file *)
(* in a process pool, the results collected as the calls complete.         *)
(***************************************************************************)
\* A results file as main finds it: absent, written whole by solve(), or
\* one that pickle.load cannot read (its writer was stopped in mid-write).
ResultsFiles ==
    { [exists |-> FALSE, readable |-> FALSE, paths |-> <<>>],
      [exists |-> TRUE, readable |-> FALSE, paths |-> <<>>] }
    \cup { [exists |-> TRUE, readable |-> TRUE, paths |-> c] : c \in SavedLists }

\* The oracle of the batch: every SQL fails or returns one valid row.
BatchAnswers ==
    [Sqls -> { [result_type |-> "failure", result |-> <<>>, valid |-> FALSE],
               [result_type |-> "success", result |-> <<"r1">>, valid |-> TRUE] }]

\* str(question_id), and int(key) back.
KeyOf(question_id) == ToString(question_id)

IntOfKey(key) == CHOOSE n \in 0..(MaxTasks + 1) : ToString(n) = key

\* selected_item["sql"] + '\t----- bird -----\t' + selected_item["db_id"]
FormatEntry(sql, db_id) == <<sql, "\t----- bird -----\t", db_id>>

\* What a submitted call produces for the file of question_id: the error
\* pickle.load raises, or the returned item.
SelectionOf(file, question_id, ans, tm) ==
    IF ~file.readable
    THEN [raised |-> TRUE, question_id |-> question_id, sql |-> "", db_id |-> ""]
    ELSE LET item == select_final_sql_query(file.paths, ans, tm).item
         IN  [raised |-> FALSE, question_id |-> question_id,
              sql |-> item.sql, db_id |-> item.db_id]

KeysOf(preds) == { preds[i].key : i \in 1..Len(preds) }

\* final_pred_sqls[key] = value on a dict that keeps insertion order.
SetEntry(preds, key, value) ==
    IF key \in KeysOf(preds)
    THEN [i \in 1..Len(preds) |->
            IF preds[i].key = key THEN [key |-> key, value |-> value] ELSE preds[i]]
    ELSE Append(preds, [key |-> key, value |-> value])

\* Mutant: the back-fill writes the default entry for every id of the range.
RECURSIVE FillRange_ReplacesEntries(_, _, _)
FillRange_ReplacesEntries(preds, qid, max_id) ==
    IF qid > max_id THEN preds
    ELSE FillRange_ReplacesEntries(
             SetEntry(preds, KeyOf(qid), FormatEntry("ERROR", "financial")),
             qid + 1, max_id)

\* Lines 112-114: for qid in range(qid, max_id + 1).
RECURSIVE FillRange(_, _, _)
FillRange(preds, qid, max_id) ==
    IF qid > max_id THEN preds
    ELSE FillRange(IF KeyOf(qid) \notin KeysOf(preds)
                   THEN SetEntry(preds, KeyOf(qid), FormatEntry("ERROR", "financial"))
                   ELSE preds,
                   qid + 1, max_id)

\* Lines 107-114: fill the missing ids between the smallest and the largest.
FillMissingIds(preds) ==
    IF preds = <<>> THEN preds
    ELSE LET question_ids == { IntOfKey(k) : k \in KeysOf(preds) }
             min_id == CHOOSE n \in question_ids : \A k \in question_ids : n <= k
             max_id == CHOOSE n \in question_ids : \A k \in question_ids : k <= n
         IN  FillRange(preds, min_id, max_id)

\* sorted(..., key=lambda x: int(x[0])): ascending, equal keys keep their order.
RECURSIVE InsertByInt(_, _)
InsertByInt(sorted, x) ==
    IF sorted = <<>> THEN <<x>>
    ELSE IF IntOfKey(x.key) < IntOfKey(Head(sorted).key) THEN <<x>> \o sorted
    ELSE <<Head(sorted)>> \o InsertByInt(Tail(sorted), x)

RECURSIVE SortByInt(_, _)
SortByInt(preds, n) ==
    IF n = 0 THEN <<>> ELSE InsertByInt(SortByInt(preds, n - 1), preds[n])

MainInit ==
    /\ results_dir \in [TaskIds -> ResultsFiles]
    /\ result_paths = {}
    /\ final_pred_sqls = <<>>
    /\ output_file = [exists |-> FALSE, content |-> <<>>]
    /\ main_pc = "start"
    /\ answers \in BatchAnswers
    /\ times = [q \in Sqls |-> 1]
    /\ results = <<>>
    /\ result_groups = <<>>
    /\ result_groups_with_invalid_result = <<>>
    /\ path_idx_with_sc_score = <<>>
    /\ selected_item = NoItem
    /\ pick_pc = "off"
    /\ RerunOff
    /\ SelOff
    /\ GenOff
    /\ SolveOff
    /\ RunnerOff
    /\ CompareOff

\* Lines 97-100: glob the results files and submit one call per file.
MainSubmit ==
    /\ main_pc = "start"
    /\ result_paths' = { id \in TaskIds : results_dir[id].exists }
    /\ main_pc' = "collect"
    /\ UNCHANGED <<results_dir, final_pred_sqls, output_file>>
    /\ UNCHANGED notMain

\* Lines 102-104, one iteration: the next completed call, whichever it is;
\* future.result() returns the item or raises what the call raised.
MainCollect ==
    /\ main_pc = "collect"
    /\ \E id \in result_paths :
          /\ KeyOf(id) \notin KeysOf(final_pred_sqls)
          /\ LET item == SelectionOf(results_dir[id], id, answers, times)
             IN  IF item.raised
                 THEN /\ main_pc' = "aborted"
                      /\ UNCHANGED final_pred_sqls
                 ELSE /\ final_pred_sqls' =
                            SetEntry(final_pred_sqls, KeyOf(item.question_id),
                                     FormatEntry(item.sql, item.db_id))
                      /\ UNCHANGED main_pc
    /\ UNCHANGED <<results_dir, result_paths, output_file>>
    /\ UNCHANGED notMain

\* Lines 106-120: fill the gaps, sort, write the output file.
MainWrite ==
    /\ main_pc = "collect"
    /\ KeysOf(final_pred_sqls) = { KeyOf(id) : id \in result_paths }
    /\ LET filled == FillMissingIds(final_pred_sqls)
       IN  /\ final_pred_sqls' = filled
           /\ output_file' = [exists |-> TRUE,
                              content |-> SortByInt(filled, Len(filled))]
    /\ main_pc' = "written"
    /\ UNCHANGED <<results_dir, result_paths>>
    /\ UNCHANGED notMain

MainNext == MainSubmit \/ MainCollect \/ MainWrite

SpecMain == MainInit /\ [][MainNext]_vars

(***************************************************************************)
(* SQLComparator.compare_files                                             *)
(***************************************************************************)
MaxQuestions == 2  \* most entries of the golden file

\* SQL texts are sequences of characters; the letters str.lower changes.
UpperCase == <<"A", "B", "C", "E", "L", "S", "T">>

LowerCase == <<"a", "b", "c", "e", "l", "s", "t">>

\* The text used for a question the file has no line for.
DefaultSql == <<"S", "E", "L", "E", "C", "T">>

\* The "SQL" fields of the golden entries.
GoldenSqls == { <<"a">>, <<"a", " ", "b">>, <<"s", "e", "l", "e", "c", "t", ";">> }

\* The lines of a predictions file, as read_sql_file strips them.
FileLines == { <<"A", ";", ";">>, <<"a", " ", ";">>, <<"a", " ", " ", "B">>, <<"b">> }

\* What execute_sql_with_timeout can return: a success carries rows or None.
ExecutionResults ==
    { [result_type |-> "success", is_none |-> FALSE, result |-> rows] :
        rows \in SeqsUpTo(Rows, MaxRows) }
    \cup { [result_type |-> "success", is_none |-> TRUE, result |-> <<>>] }
    \cup { [result_type |-> t, is_none |-> TRUE, result |-> <<>>] :
             t \in {"failure", "timeout"} }

\* str.lower, one character at a time.
lower(sql) ==
    [ i \in 1..Len(sql) |->
        IF \E k \in 1..Len(UpperCase) : UpperCase[k] = sql[i]
        THEN LowerCase[CHOOSE k \in 1..Len(UpperCase) : UpperCase[k] = sql[i]]
        ELSE sql[i] ]

RECURSIVE lstrip(_)
lstrip(sql) ==
    IF sql # <<>> /\ Head(sql) = " " THEN lstrip(Tail(sql)) ELSE sql

\* ' '.join(sql.split()): no blank at either end, one blank between words.
RECURSIVE JoinSplit(_)
JoinSplit(sql) ==
    IF sql = <<>> THEN <<>>
    ELSE IF Head(sql) = " "
         THEN LET rest == lstrip(sql)
              IN  IF rest = <<>> THEN <<>> ELSE <<" ">> \o JoinSplit(rest)
         ELSE <<Head(sql)>> \o JoinSplit(Tail(sql))

\* str.rstrip(';')
RECURSIVE rstrip(_)
rstrip(sql) ==
    IF sql # <<>> /\ sql[Len(sql)] = ";"
    THEN rstrip(SubSeq(sql, 1, Len(sql) - 1))
    ELSE sql

_normalize_sql(sql) == rstrip(JoinSplit(lstrip(lower(sql))))

\* Two results are the same when both are None or they hold the same rows.
_compare_results(result1, result2) ==
    IF result1.is_none /\ result2.is_none THEN TRUE
    ELSE IF result1.is_none \/ result2.is_none THEN FALSE
    ELSE Range(result1.result) = Range(result2.result)

\* The is_match and error_message of the returned dict; error_message is the
\* list that "; ".join turns into the message, and <<>> stands for None.
execute_and_compare(pred_result, golden_result) ==
    IF pred_result.result_type = "success" /\ golden_result.result_type = "success"
    THEN [is_match |-> _compare_results(pred_result, golden_result),
          error_message |-> <<>>]
    ELSE [is_match |-> FALSE,
          error_message |->
              (IF pred_result.result_type # "success"
               THEN <<"Predicted SQL error">> ELSE <<>>)
              \o (IF golden_result.result_type # "success"
                  THEN <<"Golden SQL error">> ELSE <<>>)]

\* Every dict one call of execute_and_compare can return.
CallResults ==
    { execute_and_compare(p, g) : p \in ExecutionResults, g \in ExecutionResults }

NewStats ==
    [total |-> 0, correct |-> 0, execution_error |-> 0, result_mismatch |-> 0,
     sql_exact_match |-> 0]

UpdateStats_ErrorAlsoMismatch(stats, result, exact_match) ==
    LET counted == [stats EXCEPT !.total = @ + 1]
        judged == IF result.is_match
                  THEN [counted EXCEPT !.correct = @ + 1]
                  ELSE IF result.error_message # <<>>
                       THEN [counted EXCEPT !.execution_error = @ + 1,
                                            !.result_mismatch = @ + 1]
                       ELSE [counted EXCEPT !.result_mismatch = @ + 1]
    IN  IF exact_match THEN [judged EXCEPT !.sql_exact_match = @ + 1] ELSE judged

\* The counters of one file after one processed question.
UpdateStats(stats, result, exact_match) ==
    LET counted == [stats EXCEPT !.total = @ + 1]
        judged == IF result.is_match
                  THEN [counted EXCEPT !.correct = @ + 1]
                  ELSE IF result.error_message # <<>>
                       THEN [counted EXCEPT !.execution_error = @ + 1]
                       ELSE [counted EXCEPT !.result_mismatch = @ + 1]
    IN  IF exact_match THEN [judged EXCEPT !.sql_exact_match = @ + 1] ELSE judged

\* What one question can bring for both files, by whether each file has a
\* line for it: the two returned dicts and the two exact-match flags.
QuestionOutcomes ==
    [ has1 \in BOOLEAN, has2 \in BOOLEAN |->
        { [result1 |-> r1, sql1_exact_match |-> e[1],
           result2 |-> r2, sql2_exact_match |-> e[2]] :
            r1 \in CallResults, r2 \in CallResults,
            e \in { <<_normalize_sql(sql1) = _normalize_sql(golden_sql),
                      _normalize_sql(sql2) = _normalize_sql(golden_sql)>> :
                        golden_sql \in GoldenSqls,
                        sql1 \in (IF has1 THEN FileLines ELSE {DefaultSql}),
                        sql2 \in (IF has2 THEN FileLines ELSE {DefaultSql}) } } ]

CompareInit ==
    /\ golden_data \in SeqsUpTo([db_exists : BOOLEAN], MaxQuestions)
    /\ sqls_file1 \in 0..MaxQuestions
    /\ sqls_file2 \in 0..MaxQuestions
    /\ cmp_idx = 0
    /\ file1_stats = NewStats
    /\ file2_stats = NewStats
    /\ cmp_pc = "loop"
    /\ SelOff
    /\ GenOff
    /\ SolveOff
    /\ PickOff
    /\ RunnerOff
    /\ MainOff

\* One round of the loop whose database file is missing: continue.
SkipQuestion ==
    /\ cmp_pc = "loop"
    /\ cmp_idx < Len(golden_data)
    /\ ~golden_data[cmp_idx + 1].db_exists
    /\ cmp_idx' = cmp_idx + 1
    /\ UNCHANGED <<golden_data, sqls_file1, sqls_file2, file1_stats, file2_stats,
                   cmp_pc>>
    /\ UNCHANGED notCompare

\* One round of the loop on a question whose database file exists.
CompareQuestion ==
    /\ cmp_pc = "loop"
    /\ cmp_idx < Len(golden_data)
    /\ golden_data[cmp_idx + 1].db_exists
    /\ \E o \in QuestionOutcomes[cmp_idx < sqls_file1, cmp_idx < sqls_file2] :
         /\ file1_stats' = UpdateStats(file1_stats, o.result1, o.sql1_exact_match)
         /\ file2_stats' = UpdateStats(file2_stats, o.result2, o.sql2_exact_match)
    /\ cmp_idx' = cmp_idx + 1
    /\ UNCHANGED <<golden_data, sqls_file1, sqls_file2, cmp_pc>>
    /\ UNCHANGED notCompare

\* After the loop the percentages are printed: they divide by total.
PrintStats ==
    /\ cmp_pc = "loop"
    /\ cmp_idx = Len(golden_data)
    /\ file1_stats.total > 0
    /\ cmp_pc' = "reported"
    /\ UNCHANGED <<golden_data, sqls_file1, sqls_file2, cmp_idx, file1_stats,
                   file2_stats>>
    /\ UNCHANGED notCompare

PrintStatsRaises ==
    /\ cmp_pc = "loop"
    /\ cmp_idx = Len(golden_data)
    /\ file1_stats.total = 0
    /\ cmp_pc' = "raised"
    /\ UNCHANGED <<golden_data, sqls_file1, sqls_file2, cmp_idx, file1_stats,
                   file2_stats>>
    /\ UNCHANGED notCompare

CompareNext == SkipQuestion \/ CompareQuestion \/ PrintStats \/ PrintStatsRaises

SpecCompare == CompareInit /\ [][CompareNext]_vars

(***************************************************************************)
(* Claims about select_final_sql_query                                     *)
(***************************************************************************)
\* The 0-based indices of the paths whose final SQL fails to execute.
FailedPaths ==
    { i - 1 : i \in { j \in 1..Len(results) :
                        answers[results[j][Len(results[j])].final_sql_query].result_type
                            = "failure" } }

GroupedPaths(groups) ==
    UNION { { groups[g].path_indices[k] : k \in 1..Len(groups[g].path_indices) } :
              g \in 1..Len(groups) }

\* The 0-based indices of the paths a score denominator counts: those of
\* the partition that is ranked.
CountedPaths ==
    { i - 1 : i \in { j \in 1..Len(results) :
        LET answer == answers[results[j][Len(results[j])].final_sql_query]
        IN  /\ answer.result_type = "success"
            /\ (result_groups = <<>> \/ answer.valid) } }

\* C10: a path whose final SQL fails to execute is in no group of either
\* partition, counts in no score denominator (every denominator is the
\* number of successfully executed paths of the ranked partition), and is
\* never the chosen representative, nor is its SQL the one returned.
C10_FailedPathsExcluded ==
    pick_pc = "done" =>
        /\ GroupedPaths(result_groups) \cap FailedPaths = {}
        /\ GroupedPaths(result_groups_with_invalid_result) \cap FailedPaths = {}
        /\ \A e \in 1..Len(path_idx_with_sc_score) :
              /\ path_idx_with_sc_score[e].sc_score.den = Cardinality(CountedPaths)
              /\ CountedPaths \cap FailedPaths = {}
              /\ path_idx_with_sc_score[e].path_idx \notin FailedPaths
        /\ selected_item.path_idx \notin FailedPaths
        /\ \A i \in FailedPaths :
              selected_item.sql # results[i + 1][Len(results[i + 1])].final_sql_query

\* The first path of three fails to execute and the SQL of a later path is
\* returned.
C10_Witness ==
    /\ pick_pc = "done"
    /\ Len(results) = 3
    /\ 0 \in FailedPaths
    /\ selected_item.path_idx = 1
    /\ selected_item.sql \in Sqls

\* The execution result of the final SQL of the path with 0-based index i.
AnswerOfPath(i) == answers[results[i + 1][Len(results[i + 1])].final_sql_query]

\* Its rows as an order-insensitive set.
RowSetOfPath(i) == Range(AnswerOfPath(i).result)

PathIndices == { i - 1 : i \in 1..Len(results) }

SuccessfulPaths == { i \in PathIndices : AnswerOfPath(i).result_type = "success" }

ValidPaths == { i \in SuccessfulPaths : AnswerOfPath(i).valid }

MembersOf(groups, g) ==
    { groups[g].path_indices[k] : k \in 1..Len(groups[g].path_indices) }

GroupsHolding(groups, i) == { g \in 1..Len(groups) : i \in MembersOf(groups, g) }

\* groups is a partition of the paths in pool by equality of row sets.
PartitionsByRowSet(groups, pool) ==
    /\ GroupedPaths(groups) = pool
    /\ \A i \in pool : Cardinality(GroupsHolding(groups, i)) = 1
    /\ \A g \in 1..Len(groups) :
          Len(groups[g].path_indices) = Cardinality(MembersOf(groups, g))
    /\ \A g, h \in 1..Len(groups) :
          g # h => MembersOf(groups, g) \cap MembersOf(groups, h) = {}
    /\ \A i, j \in pool :
          (GroupsHolding(groups, i) = GroupsHolding(groups, j))
              <=> (RowSetOfPath(i) = RowSetOfPath(j))

\* C11: in each partition two grouped paths share a group if and only if
\* their results are equal as order-insensitive sets of rows, the groups are
\* pairwise disjoint, every valid successful path is in exactly one primary
\* group and every successful path in exactly one invalid-inclusive group.
C11_GroupsAreRowSetClasses ==
    pick_pc = "done" =>
        /\ PartitionsByRowSet(result_groups, ValidPaths)
        /\ PartitionsByRowSet(result_groups_with_invalid_result, SuccessfulPaths)

\* Two paths whose SQLs return the same rows in a different order share the
\* one primary group, which holds all three paths of the input.
C11_Witness ==
    /\ pick_pc = "done"
    /\ Len(results) = 3
    /\ \E i, j \in ValidPaths :
          /\ AnswerOfPath(i).result # AnswerOfPath(j).result
          /\ RowSetOfPath(i) = RowSetOfPath(j)
          /\ GroupsHolding(result_groups, i) = GroupsHolding(result_groups, j)
    /\ Len(result_groups) = 1
    /\ Len(result_groups[1].path_indices) = 3

\* The groups of the partition that is ranked: the primary one unless it
\* is empty.
RankedGroups ==
    IF result_groups # <<>> THEN result_groups ELSE result_groups_with_invalid_result

\* The three-path scenario: the first two paths produce one row set, the
\* third another one, and all three results are valid.
C12_Scenario ==
    /\ Len(results) = 3
    /\ ValidPaths = {0, 1, 2}
    /\ RowSetOfPath(0) = RowSetOfPath(1)
    /\ RowSetOfPath(0) # RowSetOfPath(2)

\* C12: when the primary partition is non-empty, the returned SQL is that of
\* a member of a primary group of maximal size, the score of every ranked
\* entry is its group's size over the number of valid paths, and this holds
\* for every latency; in the three-path scenario the scores are 2/3 and 1/3
\* and the returned SQL produces the row set of the first two paths.
C12_MajorityGroupWins ==
    (pick_pc = "done" /\ result_groups # <<>>) =>
        /\ \E g \in 1..Len(result_groups) :
              /\ selected_item.path_idx \in MembersOf(result_groups, g)
              /\ \A h \in 1..Len(result_groups) :
                    Len(result_groups[h].path_indices) <= Len(result_groups[g].path_indices)
        /\ selected_item.sql = results[selected_item.path_idx + 1][4].final_sql_query
        /\ \A e \in 1..Len(path_idx_with_sc_score) :
              \E g \in 1..Len(result_groups) :
                 /\ path_idx_with_sc_score[e].path_idx \in MembersOf(result_groups, g)
                 /\ path_idx_with_sc_score[e].sc_score
                       = [num |-> Cardinality(MembersOf(result_groups, g)),
                          den |-> Cardinality(ValidPaths)]
        /\ C12_Scenario =>
              /\ Len(path_idx_with_sc_score) = 2
              /\ path_idx_with_sc_score[1].sc_score = [num |-> 2, den |-> 3]
              /\ path_idx_with_sc_score[2].sc_score = [num |-> 1, den |-> 3]
              /\ selected_item.path_idx \in {0, 1}
              /\ Range(answers[selected_item.sql].result) = RowSetOfPath(0)

\* The three-path scenario in which the minority group's SQL is the faster
\* one, and the majority group's SQL is returned all the same.
C12_Witness ==
    /\ pick_pc = "done"
    /\ C12_Scenario
    /\ times[results[3][4].final_sql_query] < times[results[1][4].final_sql_query]
    /\ selected_item.sql = results[1][4].final_sql_query

\* The measured latency of the representative (first member) of group g.
LatencyOfGroup(groups, g) ==
    times[results[groups[g].path_indices[1] + 1][4].final_sql_query]

MaximalGroups(groups) ==
    { g \in 1..Len(groups) :
        \A h \in 1..Len(groups) :
           Len(groups[h].path_indices) <= Len(groups[g].path_indices) }

\* C13: the ranked entries are in order of descending score and, among equal
\* scores, of ascending latency; the returned SQL is that of the
\* representative of a group of maximal score whose latency is the minimum
\* among all groups of maximal score.
C13_FasterGroupBreaksTie ==
    (pick_pc = "done" /\ RankedGroups # <<>>) =>
        /\ \A e, f \in 1..Len(path_idx_with_sc_score) :
              e < f =>
                 \/ path_idx_with_sc_score[e].sc_score.num
                       > path_idx_with_sc_score[f].sc_score.num
                 \/ /\ path_idx_with_sc_score[e].sc_score.num
                          = path_idx_with_sc_score[f].sc_score.num
                    /\ path_idx_with_sc_score[e].execution_time
                          <= path_idx_with_sc_score[f].execution_time
        /\ \E g \in MaximalGroups(RankedGroups) :
              /\ selected_item.path_idx = RankedGroups[g].path_indices[1]
              /\ selected_item.sql = results[selected_item.path_idx + 1][4].final_sql_query
              /\ \A h \in MaximalGroups(RankedGroups) :
                    LatencyOfGroup(RankedGroups, g) <= LatencyOfGroup(RankedGroups, h)

\* Two groups of equal size, the second one faster: its SQL is returned.
C13_Witness ==
    /\ pick_pc = "done"
    /\ Len(result_groups) = 2
    /\ Len(result_groups[1].path_indices) = Len(result_groups[2].path_indices)
    /\ LatencyOfGroup(result_groups, 2) < LatencyOfGroup(result_groups, 1)
    /\ selected_item.path_idx = result_groups[2].path_indices[1]
    /\ selected_item.sql \in Sqls

\* The item returned for the top entry of a ranking.
TopOf(ranked) ==
    [db_id |-> results[1][1].db_id,
     sql |-> results[ranked[1].path_idx + 1][4].final_sql_query,
     path_idx |-> ranked[1].path_idx]

\* C14: if at least one path has a valid successful result, the ranking is
\* that of the primary groups and the returned SQL is that of a valid path,
\* whatever the sizes of the invalid-inclusive groups; if no path has one and
\* some path has a successful result, the same ranking over the
\* invalid-inclusive groups decides the returned SQL.
C14_FallbackOnlyWhenPrimaryEmpty ==
    pick_pc = "done" =>
        /\ ValidPaths # {} =>
              /\ path_idx_with_sc_score = RankGroups(result_groups, results, times)
              /\ selected_item = TopOf(path_idx_with_sc_score)
              /\ selected_item.path_idx \in ValidPaths
        /\ (ValidPaths = {} /\ SuccessfulPaths # {}) =>
              /\ path_idx_with_sc_score
                    = RankGroups(result_groups_with_invalid_result, results, times)
              /\ selected_item = TopOf(path_idx_with_sc_score)
              /\ selected_item.path_idx \in SuccessfulPaths

\* One valid path against an invalid-result group of two: the valid path's
\* SQL is returned.
C14_Witness ==
    /\ pick_pc = "done"
    /\ Len(results) = 3
    /\ ValidPaths = {2}
    /\ Len(result_groups_with_invalid_result) = 2
    /\ MembersOf(result_groups_with_invalid_result, 1) = {0, 1}
    /\ selected_item.path_idx = 2
    /\ selected_item.sql = results[3][4].final_sql_query

\* No valid path and two invalid-result groups: the larger one's SQL is
\* returned.
C14_WitnessFallback ==
    /\ pick_pc = "done"
    /\ ValidPaths = {}
    /\ Len(result_groups_with_invalid_result) = 2
    /\ MembersOf(result_groups_with_invalid_result, 2) = {1, 2}
    /\ selected_item.path_idx = 1

\* C15: when both partitions are empty (no path in the input, or the final
\* SQL of every path fails to execute) the returned SQL is the error marker
\* ERROR and the returned database identifier is the default one, financial.
C15_Original ==
    (pick_pc = "done" /\ SuccessfulPaths = {}) =>
        /\ selected_item.sql = "ERROR"
        /\ selected_item.db_id = "financial"

\* What the code returns in the two cases of C15: the error marker in both,
\* the default identifier for an empty input and the identifier of the
\* task's database when every final SQL fails.
C15_ErrorMarkerWithTaskDb ==
    (pick_pc = "done" /\ SuccessfulPaths = {}) =>
        /\ selected_item.sql = "ERROR"
        /\ selected_item.db_id
              = IF Len(results) = 0 THEN "financial" ELSE results[1][1].db_id

\* The groups of one call as sets of paths keyed by row set: for each
\* group its key and how many times each path of the input is in it.
GroupsAsPathSets(rs, groups) ==
    { [answer |-> groups[g].answer,
       paths |-> [p \in Range(rs) |->
                    Cardinality({ k \in 1..Len(groups[g].path_indices) :
                                    rs[groups[g].path_indices[k] + 1] = p })]] :
        g \in 1..Len(groups) }

\* The scores of one call, keyed by the row set of the entry's path.
ScoresByRowSet(rs, entries) ==
    { [answer |-> Range(answers[rs[entries[e].path_idx + 1][4].final_sql_query].result),
       sc_score |-> entries[e].sc_score] : e \in 1..Len(entries) }

\* The first member of every group, and the path of every ranked entry, is
\* the member of its group that comes first in the list.
RepresentativeIsFirstSeen(groups, entries) ==
    /\ \A g \in 1..Len(groups) : \A k \in 1..Len(groups[g].path_indices) :
          groups[g].path_indices[1] <= groups[g].path_indices[k]
    /\ \A e \in 1..Len(entries) : \E g \in 1..Len(groups) :
          entries[e].path_idx = groups[g].path_indices[1]

\* C16: a call on the same paths in another order builds, in both
\* partitions, the same groups as sets of paths keyed by row set, with the
\* same consistency scores; the representative of a group is the member
\* that is first in the list the call was given.
C16_GroupingIgnoresOrder ==
    pick_pc = "rerun" =>
        /\ GroupsAsPathSets(rerun_results, rerun_out.result_groups)
              = GroupsAsPathSets(results, result_groups)
        /\ GroupsAsPathSets(rerun_results, rerun_out.result_groups_with_invalid_result)
              = GroupsAsPathSets(results, result_groups_with_invalid_result)
        /\ ScoresByRowSet(rerun_results, rerun_out.path_idx_with_sc_score)
              = ScoresByRowSet(results, path_idx_with_sc_score)
        /\ RepresentativeIsFirstSeen(
              IF rerun_out.result_groups # <<>> THEN rerun_out.result_groups
              ELSE rerun_out.result_groups_with_invalid_result,
              rerun_out.path_idx_with_sc_score)
        /\ RepresentativeIsFirstSeen(RankedGroups, path_idx_with_sc_score)

\* One group whose members have two different SQLs with the same rows: the
\* reordered call has another representative and returns the other SQL.
C16_Witness ==
    /\ pick_pc = "rerun"
    /\ Len(results) = 3
    /\ rerun_results # results
    /\ Len(result_groups) = 1
    /\ Len(rerun_out.result_groups) = 1
    /\ selected_item.sql \in Sqls
    /\ rerun_out.item.sql \in Sqls
    /\ rerun_out.item.sql # selected_item.sql

\* The paths the ranking is about: the valid ones, or the successful ones
\* when no path is valid.
RankedPool == IF ValidPaths # {} THEN ValidPaths ELSE SuccessfulPaths

\* The first seen path of every class of paths with equal row sets.
Representatives ==
    { i \in RankedPool :
        \A j \in RankedPool : RowSetOfPath(j) = RowSetOfPath(i) => i <= j }

\* C25: whenever groups are ranked, there is exactly one ranked entry per
\* group, the entry's path is the member of the group with the lowest input
\* index, its latency is the one measured on that path's final SQL, and the
\* returned SQL is the final SQL of one of these representatives.
C25_RepresentativeIsLowestIndex ==
    (pick_pc = "done" /\ RankedPool # {}) =>
        /\ Len(path_idx_with_sc_score) = Cardinality(Representatives)
        /\ { path_idx_with_sc_score[e].path_idx : e \in 1..Len(path_idx_with_sc_score) }
              = Representatives
        /\ \A e \in 1..Len(path_idx_with_sc_score) :
              path_idx_with_sc_score[e].execution_time
                 = times[results[path_idx_with_sc_score[e].path_idx + 1][4].final_sql_query]
        /\ selected_item.path_idx \in Representatives
        /\ selected_item.sql = results[selected_item.path_idx + 1][4].final_sql_query

\* One group of three paths whose first and third end in different SQLs
\* with the same rows: one entry, measured on the first path's SQL, which
\* is returned although the third path's SQL is the faster one.
C25_Witness ==
    /\ pick_pc = "done"
    /\ Len(results) = 3
    /\ Representatives = {0}
    /\ RankedPool = {0, 1, 2}
    /\ results[3][4].final_sql_query # results[1][4].final_sql_query
    /\ times[results[3][4].final_sql_query] < times[results[1][4].final_sql_query]
    /\ Len(path_idx_with_sc_score) = 1
    /\ path_idx_with_sc_score[1].execution_time = times[results[1][4].final_sql_query]
    /\ selected_item.path_idx = 0
    /\ selected_item.sql = results[1][4].final_sql_query

\* The number of paths that share the row set of representative i.
SizeOfClass(i) ==
    Cardinality({ j \in RankedPool : RowSetOfPath(j) = RowSetOfPath(i) })

LatencyOfPath(i) == times[results[i + 1][4].final_sql_query]

\* The representatives of the groups no other group beats: of maximal
\* size and, among those, of minimal latency.
TopTied ==
    { i \in Representatives :
        \A j \in Representatives :
           \/ SizeOfClass(j) < SizeOfClass(i)
           \/ (SizeOfClass(j) = SizeOfClass(i) /\ LatencyOfPath(i) <= LatencyOfPath(j)) }

\* C32: among the groups that tie on consistency score and on measured
\* latency at the top of the ranking, the one seen first wins: the returned
\* SQL is that of the tied representative with the lowest input index.
C32_FirstSeenBreaksFullTie ==
    (pick_pc = "done" /\ RankedPool # {}) =>
        /\ selected_item.path_idx \in TopTied
        /\ \A i \in TopTied : selected_item.path_idx <= i
        /\ selected_item.sql = results[selected_item.path_idx + 1][4].final_sql_query

\* Two groups of one path each, with different SQLs of the same latency:
\* the SQL of the first path is returned.
C32_Witness ==
    /\ pick_pc = "done"
    /\ Len(results) = 2
    /\ TopTied = {0, 1}
    /\ results[1][4].final_sql_query # results[2][4].final_sql_query
    /\ LatencyOfPath(0) = LatencyOfPath(1)
    /\ selected_item.path_idx = 0
    /\ selected_item.sql = results[1][4].final_sql_query

(***************************************************************************)
(* Claims about the batch runner                                           *)
(***************************************************************************)
\* The tasks the subset filter lets through.
InSubsetFile == { id \in TaskIds : (~subset_ids.given) \/ id \in subset_ids.ids }

C18_State ==
    runner_pc \in {"map", "finished"} =>
        /\ Range(tasks) \cap done_task_ids = {}
        /\ \A id \in TaskIds :
              save_root_dir[id].exists => (id \in done_task_ids \/ id \in solved)
        /\ \A id \in done_task_ids : save_root_dir[id].exists /\ id \notin solved
        /\ InSubsetFile \subseteq done_task_ids => tasks = <<>>

C18_Step ==
    /\ \A id \in TaskIds :
          save_root_dir[id].exists => save_root_dir'[id] = save_root_dir[id]
    /\ \A id \in solved' \ solved :
          (~save_root_dir[id].exists) /\ id \notin done_task_ids

\* C18: a task whose artifact is in the output directory when run_all_tasks
\* starts is not among the dispatched tasks and no worker solves it, an
\* existing artifact is never written again, and an invocation that finds an
\* artifact for every task of the batch dispatches nothing.
C18_DoneTasksAreSkipped == [](C18_State) /\ [][C18_Step]_vars

\* The second invocation finds an artifact for every task and returns with
\* nothing dispatched.
C18_Witness ==
    /\ runner_pc = "finished"
    /\ run_no = 2
    /\ done_task_ids = TaskIds
    /\ tasks = <<>>
    /\ solved = {}

C19_State ==
    /\ runner_pc # "aborted"
    /\ runner_pc = "finished" =>
          /\ solved = Range(tasks)
          /\ \A t \in gave_up : ~save_root_dir[t].exists
          /\ \A t \in Range(tasks) \ gave_up : save_root_dir[t].exists

C19_Step ==
    \A t \in gave_up' \ gave_up :
       /\ save_root_dir' = save_root_dir
       /\ runner_pc' = "map"
       /\ tasks' = tasks
       /\ solved' = solved \cup { t }

EmptyArtifact == [exists |-> TRUE, paths |-> <<>>]

C33_State ==
    runner_pc \in {"map", "finished"} =>
        \A t \in solved : t \in gave_up <=> ~save_root_dir[t].exists

C33_Step ==
    /\ \A t \in TaskIds :
          save_root_dir[t] = EmptyArtifact =>
             /\ save_root_dir'[t] = EmptyArtifact
             /\ t \notin solved' \ solved
    /\ (runner_pc = "start" /\ runner_pc' = "map") =>
          \A t \in TaskIds :
             /\ save_root_dir[t] = EmptyArtifact =>
                   (t \in done_task_ids' /\ t \notin Range(tasks'))
             /\ t \in gave_up =>
                   (~save_root_dir[t].exists /\ t \in Range(tasks'))
             /\ t \in solved \ gave_up => t \notin Range(tasks')

\* C33: a task whose solve() returned has an artifact, an empty list when
\* no path was kept, and a task whose solve() raised has none; an artifact
\* that holds an empty list is never written again, and every invocation
\* that finds it counts the task as done and does not dispatch it, while
\* the tasks given up in the invocation before are dispatched again.
C33_EmptyArtifactIsDone ==
    []C33_State /\ [][C33_Step]_vars

\* Second invocation: task 1, whose artifact is an empty list, was not
\* dispatched; task 2, given up in the first invocation, was dispatched
\* again and now has its artifact.
C33_Witness ==
    /\ run_no = 2
    /\ runner_pc = "finished"
    /\ ~subset_ids.given
    /\ save_root_dir[1] = EmptyArtifact
    /\ done_task_ids = {1, 3}
    /\ tasks = <<2>>
    /\ solved = {2}
    /\ gave_up = {}
    /\ save_root_dir[2].exists

\* The tasks some worker is running run_one_task on.
TasksInFlight == { in_flight[w] : w \in Workers } \ {0}

C26_State ==
    runner_pc \in {"map", "finished"} =>
        /\ \A t \in TaskIds :
              /\ n_runs[t] <= 1
              /\ n_writes[t] <= n_runs[t]
              /\ n_runs[t] = 1 <=> (t \in Range(tasks) /\ t \notin Range(call_queue))
        /\ \A w, v \in Workers :
              (w # v /\ in_flight[w] # 0) => in_flight[w] # in_flight[v]
        /\ solved \cup TasksInFlight = { t \in TaskIds : n_runs[t] = 1 }
        /\ solved \cap TasksInFlight = {}
        /\ runner_pc = "finished" =>
              /\ solved = Range(tasks)
              /\ \A t \in Range(tasks) : n_runs[t] = 1

C26_Step ==
    \A t \in TaskIds :
       save_root_dir'[t] # save_root_dir[t] =>
          /\ n_writes'[t] = 1
          /\ \E w \in Workers :
                /\ in_flight[w] = t
                /\ in_flight'[w] = 0
                /\ \A v \in Workers : v # w => in_flight'[v] = in_flight[v]
          /\ \A u \in TaskIds : u # t => save_root_dir'[u] = save_root_dir[u]

\* C26: in one batch run, whatever the order in which the workers take and
\* finish their tasks, run_one_task is started at most once on a task and
\* never on a task that is not pending, no two workers are on the same task
\* at the same time, a task's artifact is written at most once and only by
\* the worker that is on the task, and when the batch has returned
\* run_one_task has run exactly once on every pending task.
C26_OneWorkerPerTask ==
    []C26_State /\ [][C26_Step]_vars

\* The first worker has written the artifact of task 1 and is now on task
\* 3 while the second worker is still on task 2.
C26_Witness ==
    /\ runner_pc = "map"
    /\ tasks = <<1, 2, 3>>
    /\ in_flight = <<3, 2>>
    /\ n_writes = <<1, 0, 0>>
    /\ save_root_dir[1].exists
    /\ call_queue = <<>>

(***************************************************************************)
(* Claims about main of sql_selection                                      *)
(***************************************************************************)
\* C20: a failure while selecting for one task never aborts the run: main
\* always gets to write the output file, in which every task whose selection
\* did not fail has its entry and a failed task is absent or ERROR-marked.
C20_Original ==
    /\ main_pc # "aborted"
    /\ main_pc = "written" =>
          /\ output_file.exists
          /\ \A id \in result_paths :
                \E i \in 1..Len(output_file.content) :
                   /\ output_file.content[i].key = ToString(id)
                   /\ (~results_dir[id].readable)
                         => output_file.content[i].value[1] = "ERROR"

\* The smallest and the largest identifier that has a results file.
MinProcessedId == CHOOSE n \in result_paths : \A k \in result_paths : n <= k

MaxProcessedId == CHOOSE n \in result_paths : \A k \in result_paths : k <= n

\* The entry main holds for the results file of id: what the selection on
\* that file returns, formatted.
SelectedEntry(id) ==
    LET item == select_final_sql_query(results_dir[id].paths, answers, times).item
    IN  <<item.sql, "\t----- bird -----\t", item.db_id>>

\* C21: the output written by main is empty when there is no results file;
\* otherwise its keys are, in this order, every integer from the smallest to
\* the largest identifier with a results file, the key of a results file
\* holds the entry selected for it, and every other key holds the error
\* marker with the default database identifier.
C21_OutputIsFilledAndSorted ==
    main_pc = "written" =>
        /\ output_file.exists
        /\ result_paths = {} => output_file.content = <<>>
        /\ result_paths # {} =>
              /\ Len(output_file.content) = MaxProcessedId - MinProcessedId + 1
              /\ \A i \in 1..Len(output_file.content) :
                    LET id == MinProcessedId + i - 1
                    IN  /\ output_file.content[i].key = ToString(id)
                        /\ output_file.content[i].value =
                              IF id \in result_paths THEN SelectedEntry(id)
                              ELSE <<"ERROR", "\t----- bird -----\t", "financial">>

\* Results files for tasks 1 and 3 only, the call for task 3 completing
\* first: the output has the three keys in order, the middle one back-filled.
C21_Witness ==
    /\ main_pc = "written"
    /\ result_paths = {1, 3}
    /\ final_pred_sqls[1].key = "3"
    /\ Len(output_file.content) = 3
    /\ output_file.content[1].value[1] \in Sqls
    /\ output_file.content[2].value = <<"ERROR", "\t----- bird -----\t", "financial">>
    /\ output_file.content[3].key = "3"

(***************************************************************************)
(* Claims about the selector                                               *)
(***************************************************************************)
\* C1: for every node and every non-empty list of legal actions,
\* select_action returns an element of that list, whatever the model
\* answers (valid index, invalid index, missing block, malformed JSON, or a
\* raised error).
C1_SelectReturnsLegalAction ==
    (sel_result # NotCalled /\ Len(sel_valid) > 0) => sel_result \in Range(sel_valid)

\* An index beyond the list was answered and the heuristic picked an action
\* of the list that is not its first element.
C1_Witness ==
    /\ sel_response.kind = "index"
    /\ Len(sel_valid) > 0
    /\ sel_response.n > Len(sel_valid)
    /\ sel_result \in Range(sel_valid)
    /\ sel_result # sel_valid[1]

\* The answers for which C2 promises the heuristic's result: no structured
\* block, an index outside [1, number of legal actions], a raised error;
\* and the other unparseable answers, which end in the same handler.
C2_FallbackCase ==
    \/ sel_response.kind \in {"noblock", "raise", "badjson", "nonint"}
    \/ /\ sel_response.kind = "index"
       /\ ~(1 <= sel_response.n /\ sel_response.n <= Len(sel_valid))

\* C2: whenever the response has no structured block, or the parsed 1-based
\* index lies outside [1, number of legal actions], or the model invocation
\* raises, select_action returns exactly what _default_action_selection
\* returns for the same node and list, and no exception reaches the caller
\* (the list being non-empty, as the contract of select_action requires).
C2_FallbackIsHeuristic ==
    (sel_result # NotCalled /\ Len(sel_valid) > 0 /\ C2_FallbackCase)
        => (sel_result = def_result /\ sel_result # IndexError)

\* The index 0 was answered and the heuristic's choice, which is not the
\* first action of the list, was returned.
C2_Witness ==
    /\ sel_response.kind = "index"
    /\ sel_response.n = 0
    /\ Len(sel_valid) > 0
    /\ sel_result = def_result
    /\ sel_result # sel_valid[1]

Occurred(cls) == \E i \in 1..Len(sel_node) : sel_node[i].parent_action = cls

C3_Rule1 == EndAction \in Range(sel_valid) /\ Occurred(SQLGenerationAction)

C3_Rule2 == SQLGenerationAction \in Range(sel_valid) /\ Occurred(SchemaSelectionAction)

C3_Rule3 == SchemaSelectionAction \in Range(sel_valid) /\ ~Occurred(SchemaSelectionAction)

C30_MissingIndexSelectsFirst ==
    (sel_result # NotCalled /\ sel_response.kind = "noindex" /\ Len(sel_valid) > 0)
        => (sel_result = sel_valid[1]
            /\ sel_result = select_action(sel_node, sel_valid, [kind |-> "index", n |-> 1]))

\* The block had no index; the first action of the list was returned, and
\* it is not the action the heuristic strategy returns.
C30_Witness ==
    /\ sel_response.kind = "noindex"
    /\ Len(sel_valid) = 2
    /\ sel_result = sel_valid[1]
    /\ def_result = sel_valid[2]
    /\ def_result # sel_result

(***************************************************************************)
(* Claims about compare_files                                              *)
(***************************************************************************)
\* The counters of one file add up.
Balanced(stats) ==
    /\ stats.total = stats.correct + stats.execution_error + stats.result_mismatch
    /\ stats.sql_exact_match <= stats.total

\* From old to new, total and exactly one outcome counter went up by one.
OneOutcomeCounted(old, new) ==
    /\ new.total = old.total + 1
    /\ \E c \in {"correct", "execution_error", "result_mismatch"} :
         /\ new[c] = old[c] + 1
         /\ \A d \in {"correct", "execution_error", "result_mismatch"} \ {c} :
              new[d] = old[d]
    /\ new.sql_exact_match \in {old.sql_exact_match, old.sql_exact_match + 1}

C34_State ==
    cmp_pc # "off" => Balanced(file1_stats) /\ Balanced(file2_stats)

C34_Step ==
    cmp_idx' = cmp_idx + 1 =>
        IF golden_data[cmp_idx + 1].db_exists
        THEN /\ OneOutcomeCounted(file1_stats, file1_stats')
             /\ OneOutcomeCounted(file2_stats, file2_stats')
        ELSE UNCHANGED <<file1_stats, file2_stats>>

\* C34: in compare_files, after any number of rounds of the loop and for each
\* of the two files, total = correct + execution_error + result_mismatch and
\* sql_exact_match <= total; a round on a question whose database exists adds
\* one to total and to exactly one of the three outcome counters, and a round
\* on a question whose database is missing changes no counter.
C34_CountersAddUp == []C34_State /\ [][C34_Step]_vars

\* Two questions went through the loop, one of them without a database; the
\* other was correct and not an exact match for the first file, and an
\* execution error and an exact match for the second.
C34_Witness ==
    /\ cmp_pc = "reported"
    /\ cmp_idx = 2
    /\ \E i \in 1..2 : ~golden_data[i].db_exists
    /\ file1_stats = [NewStats EXCEPT !.total = 1, !.correct = 1]
    /\ file2_stats = [NewStats EXCEPT !.total = 1, !.execution_error = 1,
                                      !.sql_exact_match = 1]

====
